---- MODULE Spec2Model ----
(***************************************************************************)
(* Model of the live trading kernel of klapaucius:                         *)
(*   src/src/trader/modules/trader.rs      (signal -> order state machine, *)
(*                                          reconciliation handlers)       *)
(*   src/src/trader/modules/strategy.rs    (generate_last_position_signal) *)
(*   src/shared/common/src/structs/behavior_subject.rs (latest-value       *)
(*                                          channel over tokio watch)      *)
(* The exchange and the data feed are the environment.                     *)
(***************************************************************************)
EXTENDS Integers, Sequences, FiniteSets, TLC

(***************************************************************************)
(* Bounds of the model.                                                    *)
(***************************************************************************)
MaxBars == 2
MaxCloseBars == 3
MaxOrders == 2
MaxExecs == 1
MaxReconExecs == 2
MaxBalance == 2
MaxBalanceEvents == 1
MaxStampedEvents == 2
MaxSocketErrors == 1
MaxConnects == 2
MaxTicks == 3
BenchBars == 4
OrderUnits == 2

AllocationPercents == {50}

(***************************************************************************)
(* Option<T> is a sequence of length 0 (None) or 1 (Some).                 *)
(***************************************************************************)
None == <<>>
Some(x) == <<x>>
IsSome(o) == o # <<>>
Unwrap(o) == o[1]

SeqToSet(s) == {s[i] : i \in 1..Len(s)}

(***************************************************************************)
(* enums                                                                   *)
(***************************************************************************)
\* src/src/trader/models/signal.rs: SignalCategory
SignalCategory == {"KeepPosition", "GoLong", "GoShort", "RevertLong", "RevertShort",
                   "RevertPosition", "CloseLong", "CloseShort", "ClosePosition"}

\* the signal columns a strategy can carry (spec section 3)
SignalColumns == {"go_long", "go_short", "close_long", "close_short", "close_position"}

\* the flag sets a committed bar is drawn from
BarFlagSets == {{}, {"go_long"}, {"go_short"}, {"close_long"}, {"close_short"},
                {"close_position"}}

\* the flag sets of the bars of the reconciliation scenarios
ReconFlagSets == {{}, {"go_long"}}

\* the flag sets of the bars of the closing scenarios
CloseFlagSets == {{"go_long"}, {"go_short"}, {"close_long"}}

StopStatuses == {"StoppedSL", "StoppedTP", "StoppedBR"}

(***************************************************************************)
(* Order, Execution and Trade.  The model files of these types are not     *)
(* part of the sources at hand; their shape and the derived trade status   *)
(* follow section 3 of the specification.                                  *)
(***************************************************************************)
RECURSIVE ExecutedQuantity(_)
ExecutedQuantity(execs) ==
    IF execs = {} THEN 0
    ELSE LET e == CHOOSE x \in execs : TRUE IN e.units + ExecutedQuantity(execs \ {e})

\* Order::get_executed_quantity
get_executed_quantity(order) == ExecutedQuantity(order.executions)

\* Order::push_executions_if_new: executions are keyed by id
push_executions_if_new(order, execs) ==
    [order EXCEPT !.executions =
        @ \cup {e \in execs : \A f \in order.executions : f.id # e.id}]

\* Order::update_units
update_units(order, units) == [order EXCEPT !.units = units]

\* Order::cancel
cancel(order) == [order EXCEPT !.status = "Cancelled"]

\* Trade::new
NewTrade(open_order, close_order) ==
    [open_order |-> open_order, close_order |-> close_order]

\* Trade::status, the derived status of section 3
status(trade) ==
    LET open == trade.open_order IN
    IF open.status = "Cancelled" THEN "Cancelled"
    ELSE IF ~IsSome(trade.close_order) THEN
        IF open.status = "Filled" THEN "Open"
        ELSE IF open.status = "New" /\ open.executions = {} THEN "New"
        ELSE "PartiallyOpen"
    ELSE
        LET close == Unwrap(trade.close_order) IN
        IF close.status \in {"Filled", "Closed"} \cup StopStatuses THEN "Closed"
        ELSE IF close.status = "New" /\ close.executions = {} THEN "PendingCloseOrder"
        ELSE "PartiallyClosed"

\* Trade::update_trade: merge an order into the trade it belongs to.
\* Returns None for the Err result.
update_trade(trade, order) ==
    IF order.uuid = trade.open_order.uuid THEN
        Some([trade EXCEPT !.open_order =
                push_executions_if_new(
                    [order EXCEPT !.executions = trade.open_order.executions],
                    order.executions)])
    ELSE IF (order.is_close \/ order.is_stop)
            /\ (~IsSome(trade.close_order)
                \/ Unwrap(trade.close_order).uuid = order.uuid) THEN
        LET old == IF IsSome(trade.close_order)
                   THEN Unwrap(trade.close_order).executions ELSE {} IN
        Some([trade EXCEPT !.close_order =
                Some(push_executions_if_new(
                        [order EXCEPT !.executions = old], order.executions))])
    ELSE None

\* Trade::update_executions: attach executions to the order they name.
\* Returns None when nothing was attached.
update_executions(trade, execs) ==
    LET forOpen == {e \in execs : e.order_uuid = trade.open_order.uuid}
        forClose == IF IsSome(trade.close_order)
                    THEN {e \in execs : e.order_uuid = Unwrap(trade.close_order).uuid}
                    ELSE {}
        t1 == [trade EXCEPT !.open_order = push_executions_if_new(@, forOpen)]
        t2 == IF IsSome(trade.close_order)
              THEN [t1 EXCEPT !.close_order =
                        Some(push_executions_if_new(Unwrap(@), forClose))]
              ELSE t1
    IN IF t2 = trade THEN None ELSE Some(t2)

(***************************************************************************)
(* State.                                                                  *)
(***************************************************************************)
VARIABLES
    is_data_gather_only,          \* Trader.is_data_gather_only
    trading_settings,             \* trading_settings_arc
    current_balance_listener,     \* BehaviorSubject<Balance>: value
    update_balance_listener,      \* BehaviorSubject<Option<Balance>>
    update_order_listener,        \* BehaviorSubject<Option<OrderAction>>
    update_executions_listener,   \* BehaviorSubject<Vec<Execution>>
    signal_listener,              \* BehaviorSubject<Option<SignalCategory>>
    current_trade_listener,       \* BehaviorSubject<Option<Trade>>
    trading_data_listener,        \* BehaviorSubject<DataFrame>: trailing row
    trading_data_update_listener, \* BehaviorSubject<TradingDataUpdate>
    temp_executions,              \* temp_executions_arc: Vec<Execution>
    barPc,                        \* position of the bar-processing task
    sigPc,                        \* position of the signal task (awaited call)
    psl,                          \* locals of the running process_last_signal
    calls,                        \* Trader calls of the latest process_last_signal
    replies,                      \* what the exchange answered to these calls
    outcome,                      \* result of the latest process_last_signal
    exOrders,                     \* exchange: the orders it accepted
    exExecs,                      \* exchange: executions it generated
    exUnpublished,                \* exchange: executions not yet pushed
    appended,                     \* history: executions appended to the buffer
    early,                        \* history: executions pushed before their order
                                  \* entered the ledger
    blocked,                      \* tasks stuck on the temp_executions mutex
    barsCommitted,                \* number of bars the data feed committed
    balanceEvents,                \* number of balance events pushed
    exchange_socket_error,        \* exchange_socket_error_arc: Option<i64>
    strategy_data,                \* StrategyData arm: its row while it awaits
    socketErrors,                 \* number of account socket errors so far
    feedPc,                       \* position of BinanceDataProvider::init
    feedResult,                   \* what init returned
    run_benchmark_only,           \* argument of init
    httpFailed,                   \* history: a kline fetch over HTTP failed
    wss,                          \* the data feed's websocket connection
    last_ws_error_ts,             \* BinanceDataProvider.last_ws_error_ts
    connects,                     \* connection attempts so far (the clock)
    ticks_to_commit,              \* BehaviorSubject<Vec<TickData>>
    staged_ticks,                 \* BinanceDataProvider.staged_ticks: its ticks
    socket,                       \* the ticks the websocket delivered so far
    socket_read,                  \* how many of them try_next has returned
    yielded_trade,                \* slot-clearing task: the trade its stream yielded
    granularity,                  \* the Granularity kline_duration is taken from
    benchmark_start,              \* init: benchmark_start, in seconds
    benchmark_end,                \* init: benchmark_end, in seconds
    kline_duration,               \* BinanceDataProvider.kline_duration, in seconds
    current_staged_kline_minute,  \* listen_ticks: current_staged_kline_minute
    downsampled,                  \* history: the ticks of the last kline published
    benchPc,                      \* position of compute_benchmark_positions
    benchmark_settings,           \* its trading settings, balance and fee rate
    window,                       \* the rows of the historical window read so far
    trade_fees,                   \* compute_benchmark_positions: trade_fees
    units_col,                    \* compute_benchmark_positions: units
    profit_and_loss,              \* compute_benchmark_positions: profit_and_loss
    balances,                     \* compute_benchmark_positions: balances
    positions,                    \* compute_benchmark_positions: positions
    actions,                      \* compute_benchmark_positions: actions
    benchmark_trade,              \* compute_benchmark_positions: current_trade
    trading_data_df,              \* update_strategy_data: the decorated table
    last_period_tick_df           \* update_strategy_data: the committed bar

vars == <<is_data_gather_only, trading_settings, current_balance_listener,
          update_balance_listener, update_order_listener,
          update_executions_listener, signal_listener, current_trade_listener,
          trading_data_listener, trading_data_update_listener, temp_executions,
          barPc, sigPc, psl, calls, replies, outcome, exOrders, exExecs,
          exUnpublished, appended, early, blocked, barsCommitted,
          balanceEvents, exchange_socket_error, strategy_data, socketErrors,
          feedPc, feedResult, run_benchmark_only, httpFailed, wss,
          last_ws_error_ts, connects, ticks_to_commit, staged_ticks,
          socket, socket_read, yielded_trade, granularity, benchmark_start,
          benchmark_end, kline_duration, current_staged_kline_minute, downsampled,
          benchPc, benchmark_settings, window, trade_fees, units_col,
          profit_and_loss, balances, positions, actions, benchmark_trade,
          trading_data_df, last_period_tick_df>>

envVars == <<exOrders, exExecs, exUnpublished, early,
             barsCommitted, balanceEvents>>
sigVars == <<sigPc, psl, calls, replies, outcome>>
wsVars == <<exchange_socket_error, strategy_data, socketErrors>>
feedVars == <<feedPc, feedResult, run_benchmark_only, httpFailed, wss,
              last_ws_error_ts, connects, ticks_to_commit, staged_ticks>>
benchVars == <<benchPc, benchmark_settings, window, trade_fees, units_col,
               profit_and_loss, balances, positions, actions, benchmark_trade>>
pipeVars == <<trading_data_df, last_period_tick_df>>
tickVars == <<socket, socket_read, yielded_trade, granularity, benchmark_start,
              benchmark_end,
              kline_duration,
              current_staged_kline_minute, downsampled>>
setVars == <<is_data_gather_only, trading_settings, feedVars, benchVars,
             pipeVars, tickVars>>
cfgVars == <<setVars, wsVars>>

(***************************************************************************)
(* BehaviorSubject: a tokio watch channel.  `value` is the latest value,   *)
(* `fresh` tells whether the one subscriber's stream still has to yield    *)
(* it.  A second `next` before the subscriber ran replaces the value.      *)
(***************************************************************************)
\* BehaviorSubject::new + subscribe.  The stream first yields the initial
\* value; every initial value (None, Nil, an empty Vec) is skipped by its
\* subscriber, so the model starts after these first rounds.
Subject(v) == [value |-> v, fresh |-> FALSE]

\* BehaviorSubject::next
Publish(subject, v) == [value |-> v, fresh |-> TRUE]

\* WatchStream::next of the subscriber: marks the latest value as seen
Seen(subject) == [subject EXCEPT !.fresh = FALSE]

\* WatchStream::next on a subject that is only ever read through its stream:
\* the value handed to the subscriber is never read again, so the model
\* forgets it (`idle` is the subject's initial value)
Taken(subject, idle) == [value |-> idle, fresh |-> FALSE]

\* the n-th balance event: the wallet is unchanged, less of it is available;
\* the exchange stamps the balance with the time it was taken
BalanceEvent(n) ==
    [wallet_balance |-> MaxBalance + MaxBalanceEvents,
     available_to_withdraw |-> MaxBalance + MaxBalanceEvents - n,
     timestamp |-> n]

InitialBalance == BalanceEvent(0)

\* the close of the n-th committed bar of the traded symbol
BarClose(n) == n + 1

Nil == [kind |-> "Nil"]
MarketData(bar) == [kind |-> "MarketData", data |-> bar]
StrategyData(row) == [kind |-> "StrategyData", data |-> row]
EmitSignal(row) == [kind |-> "EmitSignal", data |-> row]
CleanUp(row) == [kind |-> "CleanUp", data |-> row]

NoLocals == [signal |-> "KeepPosition", trade |-> None, last_price |-> 0,
             balance |-> InitialBalance, recycle |-> FALSE]

\* Trader::new
TraderInit ==
    /\ is_data_gather_only \in BOOLEAN
    /\ trading_settings \in {[allocation_percentage |-> a] : a \in AllocationPercents}
    /\ current_balance_listener = InitialBalance
    /\ update_balance_listener = Subject(None)
    /\ update_order_listener = Subject(None)
    /\ update_executions_listener = Subject(<<>>)
    /\ signal_listener = Subject(None)
    /\ current_trade_listener = Subject(None)
    /\ trading_data_listener = [price |-> BarClose(0), position |-> Some(0)]
    /\ trading_data_update_listener = Subject(Nil)
    /\ temp_executions = <<>>
    /\ barPc = "run"
    /\ sigPc = "idle"
    /\ psl = NoLocals
    /\ calls = <<>>
    /\ replies = <<>>
    /\ outcome = "none"
    /\ exOrders = <<>>
    /\ exExecs = {}
    /\ exUnpublished = {}
    /\ appended = {}
    /\ early = {}
    /\ blocked = {}
    /\ barsCommitted = 0
    /\ balanceEvents = 0
    /\ exchange_socket_error = None
    /\ strategy_data = Nil
    /\ socketErrors = 0

SECONDS_IN_MIN == 60
MINUTES_IN_HOUR == 60

\* NaiveTime::minute of a timestamp in seconds
minute(timestamp) == (timestamp \div SECONDS_IN_MIN) % MINUTES_IN_HOUR

\* the values of benchmark_end and of the kline duration the feed is run with
BenchmarkEnds == {60, 90}
KlineDurations == {60, 120}

\* no tick was delivered yet; listen_ticks starts from the minute of
\* benchmark_end
TicksInit ==
    /\ socket = <<>>
    /\ socket_read = 0
    /\ yielded_trade = None
    /\ granularity = "m1"
    /\ benchmark_start = None
    /\ benchmark_end \in BenchmarkEnds
    /\ kline_duration \in KlineDurations
    /\ current_staged_kline_minute = minute(benchmark_end)
    /\ downsampled = None

\* the data feed in its live phase, connected: what it does from here on is
\* DataFeedCommitOf
FeedLive ==
    /\ feedPc = "live"
    /\ feedResult = "none"
    /\ run_benchmark_only = FALSE
    /\ httpFailed = FALSE
    /\ wss = "open"
    /\ last_ws_error_ts = None
    /\ connects = 0
    /\ ticks_to_commit = Subject(<<>>)
    /\ staged_ticks = <<>>
    /\ TicksInit
    /\ benchmark_end = 60
    /\ kline_duration = 60

\* the benchmark was computed once, before the live phase; the live engine
\* does not read its columns
BenchmarkDone ==
    /\ benchPc = "done"
    /\ benchmark_settings = <<>>
    /\ window = <<>>
    /\ trade_fees = <<>>
    /\ units_col = <<>>
    /\ profit_and_loss = <<>>
    /\ balances = <<>>
    /\ positions = <<>>
    /\ actions = <<>>
    /\ benchmark_trade = None

\* the table of the indicator and signal pipeline is not followed row by row
\* in the engine: trading_data_listener holds its trailing row
PipelineIdle ==
    /\ trading_data_df = <<>>
    /\ last_period_tick_df = None

Init == TraderInit /\ FeedLive /\ BenchmarkDone /\ PipelineIdle

(***************************************************************************)
(* Reconciliation handlers (trader.rs).                                    *)
(***************************************************************************)
\* the temp_executions mutex is held for ever by a CleanUp stage that spins
TempLocked == barPc = "hung"

\* get_update_balance_handle
UpdateBalanceHandle ==
    /\ update_balance_listener.fresh
    /\ update_balance_listener' = Taken(update_balance_listener, None)
    /\ current_balance_listener' =
          IF IsSome(update_balance_listener.value)
          THEN Unwrap(update_balance_listener.value)
          ELSE current_balance_listener
    /\ UNCHANGED <<cfgVars, update_order_listener, update_executions_listener,
                   signal_listener, current_trade_listener, trading_data_listener,
                   trading_data_update_listener, temp_executions, barPc, sigVars,
                   envVars, appended, blocked>>

\* a drain that takes the whole buffer, whatever order its executions name
AllExecutions(temp, order) == SeqToSet(temp)

\* the executions of the buffer that name the order
MatchingExecutions(temp, order) ==
    {e \in SeqToSet(temp) : e.order_uuid # 0 /\ e.order_uuid = order.uuid}

\* add_executions_to_order_and_remove_from_temp: <<updated order, new buffer>>
add_executions_to_order_and_remove_from_temp(temp, order) ==
    LET pending_executions == MatchingExecutions(temp, order)
        removed_executions_ids == {e.id : e \in pending_executions}
    IN IF pending_executions # {}
       THEN <<push_executions_if_new(order, pending_executions),
              SelectSeq(temp, LAMBDA e : e.id \notin removed_executions_ids)>>
       ELSE <<order, temp>>

\* an Update | Stop arm that opens a trade from whatever order arrives
OrderUpdateArmAnyOrder(order_action) ==
    LET drained == add_executions_to_order_and_remove_from_temp(
                       temp_executions, order_action.order)
        updated_order == drained[1]
        current_trade == current_trade_listener.value
    IN /\ temp_executions' = drained[2]
       /\ IF IsSome(current_trade)
          THEN LET updated_trade == update_trade(Unwrap(current_trade), updated_order) IN
               current_trade_listener' =
                   IF IsSome(updated_trade)
                   THEN Publish(current_trade_listener, Some(Unwrap(updated_trade)))
                   ELSE current_trade_listener
          ELSE current_trade_listener' =
                   Publish(current_trade_listener, Some(NewTrade(updated_order, None)))

\* get_update_order_handle, arm OrderAction::Update | OrderAction::Stop
OrderUpdateArm(order_action) ==
    LET drained == add_executions_to_order_and_remove_from_temp(
                       temp_executions, order_action.order)
        updated_order == drained[1]
        current_trade == current_trade_listener.value
    IN /\ temp_executions' = drained[2]
       /\ IF IsSome(current_trade)
          THEN LET updated_trade == update_trade(Unwrap(current_trade), updated_order) IN
               current_trade_listener' =
                   IF IsSome(updated_trade)
                   THEN Publish(current_trade_listener, Some(Unwrap(updated_trade)))
                   ELSE current_trade_listener
          ELSE current_trade_listener' =
                   IF updated_order.is_stop \/ updated_order.is_close
                   THEN current_trade_listener
                   ELSE Publish(current_trade_listener,
                                Some(NewTrade(updated_order, None)))

\* a Cancel arm that does not compare the order ids
OrderCancelArmAny(order_action) ==
    LET current_trade == current_trade_listener.value IN
    /\ temp_executions' = temp_executions
    /\ current_trade_listener' =
          IF IsSome(current_trade)
          THEN Publish(current_trade_listener,
                       Some(Unwrap(update_trade(Unwrap(current_trade),
                                cancel(Unwrap(current_trade).open_order)))))
          ELSE current_trade_listener

\* get_update_order_handle, arm OrderAction::Cancel
OrderCancelArm(order_action) ==
    LET current_trade == current_trade_listener.value IN
    /\ temp_executions' = temp_executions
    /\ current_trade_listener' =
          IF IsSome(current_trade)
             /\ order_action.order.id = Unwrap(current_trade).open_order.id
          THEN Publish(current_trade_listener,
                       Some(Unwrap(update_trade(Unwrap(current_trade),
                                cancel(Unwrap(current_trade).open_order)))))
          ELSE current_trade_listener

\* get_update_order_handle
UpdateOrderHandle ==
    /\ update_order_listener.fresh
    /\ "order" \notin blocked
    /\ update_order_listener' = Taken(update_order_listener, None)
    /\ LET order_update == update_order_listener.value IN
       IF ~IsSome(order_update)
       THEN UNCHANGED <<temp_executions, current_trade_listener, blocked>>
       ELSE IF Unwrap(order_update).action \in {"Update", "Stop"}
       THEN IF TempLocked
            THEN /\ blocked' = blocked \cup {"order"}
                 /\ UNCHANGED <<temp_executions, current_trade_listener>>
            ELSE /\ OrderUpdateArm(Unwrap(order_update))
                 /\ UNCHANGED blocked
       ELSE /\ OrderCancelArm(Unwrap(order_update))
            /\ UNCHANGED blocked
    /\ UNCHANGED <<cfgVars, current_balance_listener, update_balance_listener,
                   update_executions_listener, signal_listener, trading_data_listener,
                   trading_data_update_listener, barPc, sigVars, envVars, appended>>

\* get_update_executions_handle
UpdateExecutionsHandle ==
    /\ update_executions_listener.fresh
    /\ "executions" \notin blocked
    /\ update_executions_listener' = Taken(update_executions_listener, <<>>)
    /\ LET latest_executions == update_executions_listener.value IN
       IF Len(latest_executions) = 0
       THEN UNCHANGED <<temp_executions, appended, blocked>>
       ELSE IF TempLocked
       THEN /\ blocked' = blocked \cup {"executions"}
            /\ UNCHANGED <<temp_executions, appended>>
       ELSE /\ temp_executions' = temp_executions \o latest_executions
            /\ appended' = appended \cup SeqToSet(latest_executions)
            /\ UNCHANGED blocked
    /\ UNCHANGED <<cfgVars, current_balance_listener, update_balance_listener,
                   update_order_listener, signal_listener, current_trade_listener,
                   trading_data_listener, trading_data_update_listener, barPc,
                   sigVars, envVars>>

\* on_close_update_trading_data: the trailing row of a closed or cancelled trade
on_close_update_trading_data(row) == [row EXCEPT !.position = Some(0)]

\* a slot-clearing task that only clears cancelled trades
ClearsSlotCancelledOnly(trade_status) == trade_status = "Cancelled"

\* get_current_trade_update_handle: the statuses on which the slot is cleared
ClearsSlot(trade_status) == trade_status \in {"Cancelled", "Closed"}

\* get_current_trade_update_handle.  The None it sends is yielded by its own
\* stream and skipped in the next round, which the model folds into this step.
CurrentTradeUpdateHandle ==
    /\ current_trade_listener.fresh
    /\ LET current_trade == current_trade_listener.value IN
       IF IsSome(current_trade) /\ ClearsSlot(status(Unwrap(current_trade)))
       THEN /\ trading_data_listener' =
                  on_close_update_trading_data(trading_data_listener)
            /\ current_trade_listener' = Taken(current_trade_listener, None)
       ELSE /\ current_trade_listener' = Seen(current_trade_listener)
            /\ UNCHANGED trading_data_listener
    /\ UNCHANGED <<cfgVars, current_balance_listener, update_balance_listener,
                   update_order_listener, update_executions_listener,
                   signal_listener, trading_data_update_listener, temp_executions,
                   barPc, sigVars, envVars, appended, blocked>>

\* what the slot-clearing task leaves alone in either of its two steps
clearFrame == <<is_data_gather_only, trading_settings, feedVars, benchVars,
                pipeVars, wsVars, socket, socket_read, granularity,
                benchmark_start, benchmark_end, kline_duration,
                current_staged_kline_minute, downsampled,
                current_balance_listener, update_balance_listener,
                update_order_listener, update_executions_listener,
                signal_listener, trading_data_update_listener, temp_executions,
                barPc, sigVars, envVars, appended, blocked>>

\* a slot-clearing task that goes on with whatever trade its stream yields
ClearTakeAny ==
    /\ yielded_trade = None
    /\ current_trade_listener.fresh
    /\ current_trade_listener' = Seen(current_trade_listener)
    /\ yielded_trade' = current_trade_listener.value
    /\ UNCHANGED <<clearFrame, trading_data_listener>>

\* get_current_trade_update_handle, `subscription.next().await` (line 236):
\* the stream yields the value of the slot; a value that is None or a trade
\* that is neither Cancelled nor Closed ends the round at once
ClearTake ==
    /\ yielded_trade = None
    /\ current_trade_listener.fresh
    /\ current_trade_listener' = Seen(current_trade_listener)
    /\ LET current_trade == current_trade_listener.value IN
       yielded_trade' =
           IF IsSome(current_trade) /\ ClearsSlot(status(Unwrap(current_trade)))
           THEN current_trade ELSE None
    /\ UNCHANGED <<clearFrame, trading_data_listener>>

\* get_current_trade_update_handle, lines 243-280: the task, which runs on
\* its own (`spawn`), closes the trailing row and sends None to the slot
ClearApply ==
    /\ yielded_trade # None
    /\ yielded_trade' = None
    /\ trading_data_listener' = on_close_update_trading_data(trading_data_listener)
    /\ current_trade_listener' = Taken(current_trade_listener, None)
    /\ UNCHANGED clearFrame

(***************************************************************************)
(* Bar processing (trader.rs get_process_trading_data_handle) and the      *)
(* strategy stage (strategy.rs).                                           *)
(***************************************************************************)
\* the signal columns of the configured strategy
StrategySignals == SignalColumns

\* Strategy::update_strategy_data: the committed bar becomes the trailing row;
\* its position is not yet set
update_strategy_data(current_trading_data, last_period_tick_data) ==
    [price |-> last_period_tick_data.price,
     flags |-> last_period_tick_data.flags \cap StrategySignals,
     position |-> None]

\* a conversion that gives a short side a position outside -1..1
SideToPositionWide(side) == IF side = "Buy" THEN 1 ELSE IF side = "Sell" THEN -2 ELSE 0

\* Side -> i32
SideToPosition(side) == IF side = "Buy" THEN 1 ELSE IF side = "Sell" THEN -1 ELSE 0

\* update_trading_data: decorates the trailing row
update_trading_data(strategy_updated_data, trade) ==
    IF IsSome(trade)
    THEN IF status(Unwrap(trade)) \in {"Cancelled", "Closed"}
         THEN strategy_updated_data
         ELSE [strategy_updated_data EXCEPT
                  !.position = Some(SideToPosition(Unwrap(trade).open_order.side))]
    ELSE [strategy_updated_data EXCEPT !.position = Some(0)]

\* a signal generator that does not look at the trailing position first
generate_last_position_signal_any_position(data) ==
    IF "go_short" \in data.flags THEN "GoShort"
    ELSE IF "go_long" \in data.flags THEN "GoLong"
    ELSE IF "close_position" \in data.flags THEN "ClosePosition"
    ELSE IF "close_short" \in data.flags THEN "CloseShort"
    ELSE IF "close_long" \in data.flags THEN "CloseLong"
    ELSE "KeepPosition"

\* Strategy::generate_last_position_signal (the position of the row is set)
generate_last_position_signal(data) ==
    LET current_position == Unwrap(data.position)
        is_position_close == "close_position" \in data.flags
        is_long_close == current_position = 1 /\ "close_long" \in data.flags
        is_short_close == current_position = -1 /\ "close_short" \in data.flags
    IN IF current_position = 0
       THEN IF "go_short" \in data.flags THEN "GoShort"
            ELSE IF "go_long" \in data.flags THEN "GoLong"
            ELSE "KeepPosition"
       ELSE IF is_position_close THEN "ClosePosition"
            ELSE IF is_short_close THEN "CloseShort"
            ELSE IF is_long_close THEN "CloseLong"
            ELSE "KeepPosition"

barFrame == <<cfgVars, current_balance_listener, update_balance_listener,
              update_order_listener, update_executions_listener, sigVars, envVars,
              appended, blocked>>

\* arm TradingDataUpdate::MarketData
ProcessMarketData ==
    /\ barPc = "run"
    /\ trading_data_update_listener.fresh
    /\ trading_data_update_listener.value.kind = "MarketData"
    /\ trading_data_update_listener' =
          Publish(trading_data_update_listener,
                  StrategyData(update_strategy_data(
                      trading_data_listener, trading_data_update_listener.value.data)))
    /\ UNCHANGED <<barFrame, signal_listener, current_trade_listener,
                   trading_data_listener, temp_executions, barPc>>

\* `if exchange_socket_error_ts.is_some()`
NeedsResyncNever(exchange_socket_error_ts) == FALSE

NeedsResync(exchange_socket_error_ts) == IsSome(exchange_socket_error_ts)

\* the StrategyData arm from update_trading_data on: the trailing row is
\* decorated and handed to the EmitSignal stage
Decorate(strategy_updated_data) ==
    LET trading_data == update_trading_data(strategy_updated_data,
                                            current_trade_listener.value)
    IN /\ trading_data_listener' =
             [price |-> trading_data.price, position |-> trading_data.position]
       /\ trading_data_update_listener' =
             Publish(trading_data_update_listener, EmitSignal(trading_data))

\* arm TradingDataUpdate::StrategyData, up to the awaited resync if there is
\* one or to its end
ProcessStrategyData ==
    /\ barPc = "run"
    /\ trading_data_update_listener.fresh
    /\ trading_data_update_listener.value.kind = "StrategyData"
    /\ IF NeedsResync(exchange_socket_error)
       THEN /\ barPc' = "resync"
            /\ strategy_data' = trading_data_update_listener.value.data
            /\ trading_data_update_listener' =
                  Taken(trading_data_update_listener, Nil)
            /\ UNCHANGED trading_data_listener
       ELSE /\ Decorate(trading_data_update_listener.value.data)
            /\ UNCHANGED <<barPc, strategy_data>>
    /\ UNCHANGED <<setVars, exchange_socket_error,
                   socketErrors, current_balance_listener, update_balance_listener,
                   update_order_listener, update_executions_listener, sigVars,
                   envVars, appended, blocked, signal_listener,
                   current_trade_listener, temp_executions>>

\* arm TradingDataUpdate::EmitSignal; unwrapping a null position panics
ProcessEmitSignal ==
    /\ barPc = "run"
    /\ trading_data_update_listener.fresh
    /\ trading_data_update_listener.value.kind = "EmitSignal"
    /\ LET trading_data == trading_data_update_listener.value.data IN
       IF IsSome(trading_data.position)
       THEN /\ signal_listener' =
                  Publish(signal_listener,
                          Some(generate_last_position_signal(trading_data)))
            /\ trading_data_update_listener' =
                  Publish(trading_data_update_listener, CleanUp(trading_data))
            /\ UNCHANGED barPc
       ELSE /\ barPc' = "panicked"
            /\ trading_data_update_listener' = Taken(trading_data_update_listener, Nil)
            /\ UNCHANGED signal_listener
    /\ UNCHANGED <<barFrame, current_trade_listener, trading_data_listener,
                   temp_executions>>

\* the loop `while let Some(execution) = temp_executions_guard.iter().next()`
\* of the CleanUp arm restarts the iterator on every round: it ends, with the
\* executions it collected, only on an empty buffer
CleanUpLoop(temp, current_trade) ==
    IF temp = <<>> THEN Some({}) ELSE None

\* arm TradingDataUpdate::CleanUp
ProcessCleanUp ==
    /\ barPc = "run"
    /\ trading_data_update_listener.fresh
    /\ trading_data_update_listener.value.kind = "CleanUp"
    /\ trading_data_update_listener' = Taken(trading_data_update_listener, Nil)
    /\ LET current_trade == current_trade_listener.value IN
       IF IsSome(current_trade)
       THEN LET loop == CleanUpLoop(temp_executions, Unwrap(current_trade)) IN
            IF ~IsSome(loop)
            THEN /\ barPc' = "hung"
                 /\ UNCHANGED <<current_trade_listener, temp_executions>>
            ELSE LET pending_executions == Unwrap(loop)
                     removed_executions_ids == {e.id : e \in pending_executions}
                     updated_trade ==
                        update_executions(Unwrap(current_trade), pending_executions)
                 IN /\ UNCHANGED barPc
                    /\ IF pending_executions # {} /\ IsSome(updated_trade)
                       THEN /\ current_trade_listener' =
                                  Publish(current_trade_listener,
                                          Some(Unwrap(updated_trade)))
                            /\ temp_executions' =
                                  SelectSeq(temp_executions,
                                      LAMBDA e : e.id \notin removed_executions_ids)
                       ELSE UNCHANGED <<current_trade_listener, temp_executions>>
       ELSE UNCHANGED <<barPc, current_trade_listener, temp_executions>>
    /\ UNCHANGED <<barFrame, signal_listener, trading_data_listener>>

\* the data feed commits a closed bar (binance/structs.rs
\* handle_committed_ticks_data)
DataFeedCommitOf(flagSets, maxBars) ==
    /\ barsCommitted < maxBars
    /\ barsCommitted' = barsCommitted + 1
    /\ \E flags \in flagSets :
          trading_data_update_listener' =
              Publish(trading_data_update_listener,
                      MarketData([price |-> BarClose(barsCommitted + 1),
                                  flags |-> flags]))
    /\ UNCHANGED <<cfgVars, current_balance_listener, update_balance_listener,
                   update_order_listener, update_executions_listener,
                   signal_listener, current_trade_listener, trading_data_listener,
                   temp_executions, barPc, sigVars, exOrders, exExecs,
                   exUnpublished, early, balanceEvents, appended,
                   blocked>>

(***************************************************************************)
(* The data feed (binance/structs.rs BinanceDataProvider::init): the       *)
(* bootstrap over HTTP, then the reconnect loop of the websocket.          *)
(***************************************************************************)
traderFrame == <<is_data_gather_only, trading_settings, wsVars,
                 current_balance_listener, update_balance_listener,
                 update_order_listener, update_executions_listener,
                 signal_listener, current_trade_listener, trading_data_listener,
                 temp_executions, barPc, sigVars, exOrders, exExecs,
                 exUnpublished, early, balanceEvents, appended, blocked>>
feedFrame == <<traderFrame, benchVars, pipeVars>>

\* init returns
FeedReturn(result) ==
    /\ feedPc' = "returned"
    /\ feedResult' = result

\* init after `handle_http_klines_fetch(..).await?` gave Ok
FeedEnterLive ==
    IF run_benchmark_only
    THEN FeedReturn("Ok")
    ELSE feedPc' = "connect" /\ UNCHANGED feedResult

\* the feed publishes the kline of a closed bar
PublishKline ==
    /\ barsCommitted' = barsCommitted + 1
    /\ \E flags \in BarFlagSets :
          trading_data_update_listener' =
              Publish(trading_data_update_listener,
                      MarketData([price |-> BarClose(barsCommitted + 1),
                                  flags |-> flags]))

\* now as a timestamp: one more than at the last attempt to connect
current_timestamp == IF connects < MaxConnects THEN connects + 1 ELSE MaxConnects

\* set_ws_error_ts
set_ws_error_ts == last_ws_error_ts' = Some(current_timestamp)

\* init: `adjust_benchmark_datetimes(..)?`
FeedAdjust ==
    /\ feedPc = "init"
    /\ \E valid_window \in BOOLEAN :
          IF valid_window
          THEN feedPc' = "history" /\ UNCHANGED feedResult
          ELSE FeedReturn("Err")
    /\ UNCHANGED <<feedFrame, tickVars, run_benchmark_only, httpFailed, wss,
                   last_ws_error_ts, connects, ticks_to_commit, staged_ticks,
                   trading_data_update_listener, barsCommitted>>

\* handle_http_klines_fetch up to `if is_last_kline_available`: the spawned
\* task drops the Result of fetch_benchmark_available_data (`let _ =`) and
\* the JoinHandle's result is dropped too
FeedFetchHistory ==
    /\ feedPc = "history"
    /\ \E fetched \in BOOLEAN, is_last_kline_available \in BOOLEAN :
          /\ httpFailed' = ~fetched
          /\ IF is_last_kline_available
             THEN FeedEnterLive
             ELSE feedPc' = "last_kline" /\ UNCHANGED feedResult
    /\ UNCHANGED <<feedFrame, tickVars, run_benchmark_only, wss, last_ws_error_ts,
                   connects, ticks_to_commit, staged_ticks,
                   trading_data_update_listener, barsCommitted>>

\* handle_http_klines_fetch, the task that waits for the last kline: a
\* failed fetch_data panics the spawned task (`expect`), whose JoinError is
\* dropped (`let _ = last_kline_available_handle.await`)
FeedLastKline ==
    /\ feedPc = "last_kline"
    /\ \E fetched \in BOOLEAN :
          /\ httpFailed' = (httpFailed \/ ~fetched)
          /\ IF fetched
             THEN PublishKline
             ELSE UNCHANGED <<trading_data_update_listener, barsCommitted>>
    /\ FeedEnterLive
    /\ UNCHANGED <<feedFrame, tickVars, run_benchmark_only, wss, last_ws_error_ts,
                   connects, ticks_to_commit, staged_ticks>>

\* init, the loop: connect_async.  On Ok the arm awaits
\* handle_committed_ticks_data first (the tuple's first element), whose new
\* subscription yields the current value of ticks_to_commit; on Err the
\* timestamp is recorded and the task sleeps.
FeedConnect ==
    /\ feedPc = "connect"
    /\ connects' = current_timestamp
    /\ \E connected \in BOOLEAN :
          IF connected
          THEN /\ wss' = "open"
               /\ feedPc' = "handle_committed_ticks_data"
               /\ ticks_to_commit' =
                     [ticks_to_commit EXCEPT !.fresh = ticks_to_commit.value # <<>>]
               /\ UNCHANGED last_ws_error_ts
          ELSE /\ wss' = "none"
               /\ set_ws_error_ts
               /\ feedPc' = "sleep"
               /\ UNCHANGED ticks_to_commit
    /\ UNCHANGED <<feedFrame, tickVars, feedResult, run_benchmark_only, httpFailed,
                   staged_ticks, trading_data_update_listener, barsCommitted>>

\* sleep(WS_RECONNECT_INTERVAL_IN_SECS) is over: next round of the loop
FeedSleep ==
    /\ feedPc = "sleep"
    /\ feedPc' = "connect"
    /\ UNCHANGED <<feedFrame, tickVars, feedResult, run_benchmark_only, httpFailed, wss,
                   last_ws_error_ts, connects, ticks_to_commit, staged_ticks,
                   trading_data_update_listener, barsCommitted>>

\* committed_ticks.sort_by(|a, b| a.start_time.cmp(&b.start_time))
RECURSIVE sort_by_start_time(_)
sort_by_start_time(ticks) ==
    IF ticks = <<>> THEN <<>>
    ELSE LET k == CHOOSE i \in 1..Len(ticks) :
                      \A j \in 1..Len(ticks) :
                          ticks[i].start_time <= ticks[j].start_time
         IN <<ticks[k]>> \o
            sort_by_start_time(SubSeq(ticks, 1, k - 1) \o SubSeq(ticks, k + 1, Len(ticks)))

\* the ticks handle_committed_ticks_data hands to
\* map_and_downsample_ticks_data_to_df: the whole sorted batch (the filter on
\* discard_ticks_before only counts)
KeptTicks(committed_ticks) == sort_by_start_time(committed_ticks)

\* the batch is skipped: it is empty or holds no tick after
\* discard_ticks_before = benchmark_end - 1ns
SkipsBatch(committed_ticks) ==
    \/ Len(committed_ticks) <= 0
    \/ ~\E i \in 1..Len(committed_ticks) :
            committed_ticks[i].start_time >= benchmark_end

\* one round of the loop of handle_committed_ticks_data on a new value of
\* ticks_to_commit; `returns` is what happens when the downsampling fails
HandleCommittedTicksRound(returns) ==
    /\ ticks_to_commit.fresh
    /\ ticks_to_commit' = Seen(ticks_to_commit)
    /\ LET committed_ticks == ticks_to_commit.value IN
       IF SkipsBatch(committed_ticks)
       THEN UNCHANGED <<feedPc, downsampled, trading_data_update_listener,
                        barsCommitted>>
       ELSE \E ok \in BOOLEAN :
               IF ok
               THEN /\ PublishKline
                    /\ downsampled' = Some(KeptTicks(committed_ticks))
                    /\ UNCHANGED feedPc
               ELSE /\ returns
                    /\ UNCHANGED <<downsampled, trading_data_update_listener,
                                   barsCommitted>>
    /\ UNCHANGED <<feedFrame, feedResult, run_benchmark_only, httpFailed, wss,
                   last_ws_error_ts, connects, staged_ticks, socket,
                   socket_read, yielded_trade,
                   granularity, benchmark_start, benchmark_end,
                   kline_duration, current_staged_kline_minute>>

\* handle_committed_ticks_data as init awaits it: it publishes klines, or
\* returns the Err of the downsampling, and only then does init call
\* listen_ticks
FeedHandleCommittedTicks ==
    /\ feedPc = "handle_committed_ticks_data"
    /\ HandleCommittedTicksRound(feedPc' = "listen_ticks")

\* listen_ticks: `tick_minute == current_staged_kline_minute`
SameStagedKline(tick) == minute(tick.start_time) = current_staged_kline_minute

\* one round of the loop of listen_ticks: a read error records the timestamp
\* and returns Err (`failed`); a tick of the staged minute is staged, a tick
\* of another minute commits the staged ones and is staged alone
ListenTicksRound(failed) ==
    /\ IF wss = "broken"
       THEN /\ set_ws_error_ts
            /\ failed
            /\ UNCHANGED <<ticks_to_commit, staged_ticks, socket_read,
                           current_staged_kline_minute>>
       ELSE /\ socket_read < Len(socket)
            /\ socket_read' = socket_read + 1
            /\ UNCHANGED <<feedPc, last_ws_error_ts>>
            /\ LET tick_data == socket[socket_read + 1] IN
               IF SameStagedKline(tick_data)
               THEN /\ staged_ticks' = Append(staged_ticks, tick_data)
                    /\ UNCHANGED <<ticks_to_commit, current_staged_kline_minute>>
               ELSE /\ ticks_to_commit' = Publish(ticks_to_commit, staged_ticks)
                    /\ staged_ticks' = <<tick_data>>
                    /\ current_staged_kline_minute' = minute(tick_data.start_time)
    /\ UNCHANGED <<feedFrame, feedResult, run_benchmark_only, httpFailed, wss,
                   connects, socket, yielded_trade, granularity,
                   benchmark_start, benchmark_end,
                   kline_duration,
                   downsampled,
                   trading_data_update_listener, barsCommitted>>

\* listen_ticks as init awaits it: on Err the arm `(_, Err(error))` records
\* the timestamp again and sleeps
FeedListenTicks ==
    /\ feedPc = "listen_ticks"
    /\ ListenTicksRound(feedPc' = "sleep")

\* the timestamps of the ticks the exchange sends
TickTimes == {70, 100, 130, 190, 3670}

\* the exchange sends a tick, not older than the one before
ExTick ==
    /\ wss = "open"
    /\ Len(socket) < MaxTicks
    /\ \E t \in TickTimes :
          /\ socket # <<>> => socket[Len(socket)].start_time <= t
          /\ socket' = Append(socket, [start_time |-> t])
    /\ UNCHANGED <<feedFrame, feedVars, socket_read, yielded_trade,
                   granularity, benchmark_start,
                   benchmark_end,
                   kline_duration, current_staged_kline_minute, downsampled,
                   trading_data_update_listener, barsCommitted>>

\* the server drops the websocket connection
ExSocketBreak ==
    /\ wss = "open"
    /\ wss' = "broken"
    /\ UNCHANGED <<feedFrame, tickVars, feedPc, feedResult, run_benchmark_only,
                   httpFailed, last_ws_error_ts, connects, ticks_to_commit,
                   staged_ticks, trading_data_update_listener, barsCommitted>>

(***************************************************************************)
(* The signal task (trader.rs get_signal_handle, process_last_signal,      *)
(* open_order).  A Trader call is dispatched in one step and resolved by   *)
(* the exchange in a later one; other tasks run in between.                *)
(***************************************************************************)
\* open_order: the request sent to Exchange::open_order; amounts are in
\* hundredths (allocation_percentage is a percentage)
open_order(settings, side, available_to_withdraw, last_price) ==
    [op |-> "open_order", side |-> side,
     amount |-> available_to_withdraw * settings.allocation_percentage,
     price |-> last_price]

CancelCall(order) == [op |-> "cancel_order", id |-> order.id]

AmendCall(order, units) == [op |-> "amend_order", id |-> order.id, units |-> units]

TryCloseCall(trade, last_price) ==
    [op |-> "try_close_position", trade |-> trade, price |-> last_price]

\* the close test without its directional arms: only close_position cancels
ClosesIdleOrderOnPositionOnly(signal, side) ==
    signal = "ClosePosition" /\ side # "Nil"

\* process_last_signal, TradeStatus::New: the signal closes the idle order
ClosesIdleOrder(signal, side) ==
    \/ signal = "CloseLong" /\ side = "Buy"
    \/ signal = "CloseShort" /\ side = "Sell"
    \/ signal = "ClosePosition" /\ side # "Nil"

\* process_last_signal, TradeStatus::New: the signal recycles the idle order
RecyclesIdleOrder(signal, side) ==
    \/ signal = "GoLong" /\ side = "Sell"
    \/ signal = "GoShort" /\ side = "Buy"

\* process_last_signal, TradeStatus::PartiallyOpen: the units sent to amend_order
left_units(order) == get_executed_quantity(order) - order.units

\* the balance the recycled opener is sized from
RecycleBalance(balance) == balance.wallet_balance

\* the opener of an empty ledger sized from the wallet balance instead
EmptyLedgerBalanceOfWallet(balance) == balance.wallet_balance

\* the balance the opener of an empty ledger is sized from
EmptyLedgerBalance(balance) == balance.available_to_withdraw

Locals(signal, trade, last_price, balance, recycle) ==
    [signal |-> signal, trade |-> trade, last_price |-> last_price,
     balance |-> balance, recycle |-> recycle]

Dispatch(pc, call, locals) ==
    /\ sigPc' = pc
    /\ psl' = locals
    /\ calls' = <<call>>
    /\ replies' = <<>>
    /\ outcome' = "running"

Return(result, locals) ==
    /\ sigPc' = "returned"
    /\ psl' = locals
    /\ outcome' = result

\* process_last_signal returns Ok(()) without a Trader call
NoCall(locals) ==
    /\ calls' = <<>>
    /\ replies' = <<>>
    /\ Return("Ok", locals)

\* process_last_signal up to its first Trader call
process_last_signal(signal) ==
    LET current_trade == current_trade_listener.value
        last_price == trading_data_listener.price
        balance == current_balance_listener
        here == Locals(signal, current_trade, last_price, balance, FALSE)
    IN IF IsSome(current_trade)
       THEN LET trade == Unwrap(current_trade)
                current_trade_status == status(trade)
            IN CASE current_trade_status = "New" ->
                      IF ClosesIdleOrder(signal, trade.open_order.side)
                      THEN Dispatch("cancel", CancelCall(trade.open_order), here)
                      ELSE IF RecyclesIdleOrder(signal, trade.open_order.side)
                      THEN Dispatch("cancel", CancelCall(trade.open_order),
                                    [here EXCEPT !.recycle = TRUE])
                      ELSE NoCall(here)
                 [] current_trade_status = "PartiallyOpen" ->
                      Dispatch("amend",
                               AmendCall(trade.open_order, left_units(trade.open_order)),
                               here)
                 [] current_trade_status = "PendingCloseOrder" ->
                      Dispatch("close", TryCloseCall(trade, last_price), here)
                 [] OTHER -> NoCall(here)
       ELSE CASE signal = "GoLong" ->
                    Dispatch("open",
                             open_order(trading_settings, "Buy",
                                        EmptyLedgerBalance(balance), last_price),
                             here)
              [] signal = "GoShort" ->
                    Dispatch("open",
                             open_order(trading_settings, "Sell",
                                        EmptyLedgerBalance(balance), last_price),
                             here)
              [] OTHER -> NoCall(here)

sigFrame == <<cfgVars, current_balance_listener, update_balance_listener,
              update_order_listener, update_executions_listener,
              current_trade_listener, trading_data_listener,
              trading_data_update_listener, temp_executions, barPc, appended,
              blocked, exExecs, exUnpublished, early, barsCommitted,
              balanceEvents>>

DataFeedCommit == DataFeedCommitOf(BarFlagSets, MaxBars)

ReconDataFeedCommit == DataFeedCommitOf(ReconFlagSets, MaxBars)

CloseDataFeedCommit == DataFeedCommitOf(CloseFlagSets, MaxCloseBars)

\* get_signal_handle: one round of the subscription loop
SignalHandle ==
    /\ sigPc = "idle"
    /\ signal_listener.fresh
    /\ signal_listener' = Taken(signal_listener, None)
    /\ LET signal_opt == signal_listener.value IN
       IF ~IsSome(signal_opt) \/ is_data_gather_only
          \/ Unwrap(signal_opt) = "KeepPosition"
       THEN UNCHANGED sigVars
       ELSE process_last_signal(Unwrap(signal_opt))
    /\ UNCHANGED <<sigFrame, exOrders>>

\* get_signal_handle: process_last_signal returned, its result is printed
\* and the loop awaits the next signal
SignalLoop ==
    /\ sigPc = "returned"
    /\ sigPc' = "idle"
    /\ psl' = NoLocals
    /\ calls' = <<>>
    /\ replies' = <<>>
    /\ outcome' = "none"
    /\ UNCHANGED <<sigFrame, signal_listener, exOrders>>

(***************************************************************************)
(* The exchange (environment): it resolves the Trader calls, fills orders  *)
(* and pushes order, execution and balance events.                         *)
(***************************************************************************)
ExOrder(id, side, units, is_close, closes) ==
    [id |-> id, uuid |-> id, side |-> side, units |-> units, filled |-> 0,
     status |-> "New", is_close |-> is_close, is_stop |-> FALSE,
     closes |-> closes, pub |-> "Update"]

\* the Order carried by an order event
OrderOf(exo) ==
    [id |-> exo.id, uuid |-> exo.uuid, side |-> exo.side, units |-> exo.units,
     status |-> exo.status, is_close |-> exo.is_close, is_stop |-> exo.is_stop,
     executions |-> {}]

OppositeSide(side) == IF side = "Buy" THEN "Sell" ELSE "Buy"

\* Exchange::cancel_order resolves; process_last_signal resumes
CancelResolve ==
    /\ sigPc = "cancel"
    /\ signal_listener' = signal_listener
    /\ LET id == calls[1].id IN
       \E cancel_result \in {"true", "false", "err"} :
          /\ replies' = Append(replies, cancel_result)
          /\ IF cancel_result = "true"
             THEN /\ id \in 1..Len(exOrders)
                  /\ exOrders[id].status \in {"New", "PartiallyFilled"}
                  /\ exOrders' = [exOrders EXCEPT ![id].status = "Cancelled",
                                                  ![id].pub = "Cancel"]
             ELSE UNCHANGED exOrders
          /\ IF cancel_result = "true" /\ psl.recycle
             THEN LET balance == current_balance_listener IN
                  /\ sigPc' = "open"
                  /\ psl' = [psl EXCEPT !.balance = balance]
                  /\ calls' = Append(calls,
                        open_order(trading_settings,
                                   IF psl.signal = "GoLong" THEN "Buy" ELSE "Sell",
                                   RecycleBalance(balance), psl.last_price))
                  /\ UNCHANGED outcome
             ELSE /\ Return(IF cancel_result = "true" THEN "Ok" ELSE "Err", psl)
                  /\ UNCHANGED calls
    /\ UNCHANGED sigFrame

\* Exchange::open_order resolves; open_order and process_last_signal return
OpenResolve ==
    /\ sigPc = "open"
    /\ signal_listener' = signal_listener
    /\ LET call == calls[Len(calls)] IN
       \E result \in {"Ok", "Err"} :
          /\ replies' = Append(replies, result)
          /\ IF result = "Ok"
             THEN /\ Len(exOrders) < MaxOrders
                  /\ exOrders' = Append(exOrders,
                        ExOrder(Len(exOrders) + 1, call.side, OrderUnits, FALSE, 0))
             ELSE UNCHANGED exOrders
          /\ Return(result, psl)
          /\ UNCHANGED calls
    /\ UNCHANGED sigFrame

\* process_last_signal after a successful amend: the local trade carries the
\* amended open order
AmendedTrade(trade) ==
    update_trade(trade, update_units(trade.open_order, left_units(trade.open_order)))

\* Exchange::amend_order resolves; process_last_signal resumes
AmendResolve ==
    /\ sigPc = "amend"
    /\ signal_listener' = signal_listener
    /\ LET call == calls[1] IN
       \E amended \in {"true", "false", "err"} :
          /\ replies' = Append(replies, amended)
          /\ IF amended = "true"
             THEN /\ call.id \in 1..Len(exOrders)
                  /\ exOrders[call.id].status \in {"New", "PartiallyFilled"}
                  /\ exOrders' =
                        IF call.units >= 1 /\ call.units >= exOrders[call.id].filled
                        THEN [exOrders EXCEPT
                                ![call.id].units = call.units,
                                ![call.id].status =
                                    IF exOrders[call.id].filled = call.units
                                    THEN "Filled" ELSE @,
                                ![call.id].pub = "Update"]
                        ELSE exOrders
             ELSE UNCHANGED exOrders
          /\ IF amended = "true"
             THEN LET current_trade == AmendedTrade(Unwrap(psl.trade)) IN
                  IF IsSome(current_trade)
                  THEN /\ sigPc' = "close"
                       /\ calls' = Append(calls,
                             TryCloseCall(Unwrap(current_trade), psl.last_price))
                       /\ UNCHANGED <<psl, outcome>>
                  ELSE Return("Err", psl) /\ UNCHANGED calls
             ELSE Return("Err", psl) /\ UNCHANGED calls
    /\ UNCHANGED sigFrame

\* Exchange::try_close_position resolves; process_last_signal returns
CloseResolve ==
    /\ sigPc = "close"
    /\ signal_listener' = signal_listener
    /\ LET call == calls[Len(calls)]
           id == call.trade.open_order.id
       IN \E result \in {"Ok", "Err"} :
          /\ replies' = Append(replies, result)
          /\ IF result = "Ok"
             THEN /\ Len(exOrders) < MaxOrders
                  /\ id \in 1..Len(exOrders)
                  /\ exOrders[id].filled >= 1
                  /\ exOrders' = Append(exOrders,
                        ExOrder(Len(exOrders) + 1, OppositeSide(exOrders[id].side),
                                exOrders[id].filled, TRUE, id))
             ELSE UNCHANGED exOrders
          /\ Return(result, psl)
          /\ UNCHANGED calls
    /\ UNCHANGED sigFrame

exFrame == <<cfgVars, current_balance_listener, signal_listener,
             current_trade_listener, trading_data_listener,
             trading_data_update_listener, temp_executions, barPc, sigVars,
             appended, blocked, barsCommitted>>

\* the exchange fills q units of an order
ExFillUpTo(maxExecs) ==
    /\ Cardinality(exExecs) < maxExecs
    /\ \E id \in 1..Len(exOrders) :
          /\ exOrders[id].status \in {"New", "PartiallyFilled"}
          /\ \E q \in 1..(exOrders[id].units - exOrders[id].filled) :
                LET execution == [id |-> Cardinality(exExecs) + 1,
                                  order_uuid |-> exOrders[id].uuid, units |-> q]
                IN /\ exExecs' = exExecs \cup {execution}
                   /\ exUnpublished' = exUnpublished \cup {execution}
                   /\ exOrders' =
                         [exOrders EXCEPT
                             ![id].filled = @ + q,
                             ![id].status = IF exOrders[id].filled + q = exOrders[id].units
                                            THEN "Filled" ELSE "PartiallyFilled",
                             ![id].pub = "Update"]
    /\ UNCHANGED <<exFrame, update_balance_listener, update_order_listener,
                   update_executions_listener, early, balanceEvents>>

ExFill == ExFillUpTo(MaxExecs)

ReconExFill == ExFillUpTo(MaxReconExecs)

\* the account socket delivers an order event
ExPublishOrder ==
    /\ \E id \in 1..Len(exOrders) :
          /\ exOrders[id].pub # "none"
          /\ update_order_listener' =
                Publish(update_order_listener,
                        Some([action |-> exOrders[id].pub,
                              order |-> OrderOf(exOrders[id])]))
          /\ exOrders' = [exOrders EXCEPT ![id].pub = "none"]
    /\ UNCHANGED <<exFrame, update_balance_listener, update_executions_listener,
                   exExecs, exUnpublished, early, balanceEvents>>

\* the uuids of the orders of the current trade
LedgerUuids ==
    IF IsSome(current_trade_listener.value)
    THEN LET trade == Unwrap(current_trade_listener.value) IN
         {trade.open_order.uuid} \cup
         (IF IsSome(trade.close_order) THEN {Unwrap(trade.close_order).uuid} ELSE {})
    ELSE {}

\* the account socket delivers an execution
ExPublishExecution ==
    /\ \E execution \in exUnpublished :
          /\ update_executions_listener' =
                Publish(update_executions_listener, <<execution>>)
          /\ exUnpublished' = exUnpublished \ {execution}
          /\ early' = IF execution.order_uuid \in LedgerUuids
                       THEN early ELSE early \cup {execution}
    /\ UNCHANGED <<exFrame, update_balance_listener, update_order_listener,
                   exOrders, exExecs, balanceEvents>>

\* the account socket delivers a balance
ExPublishBalance ==
    /\ balanceEvents < MaxBalanceEvents
    /\ balanceEvents' = balanceEvents + 1
    /\ update_balance_listener' =
          Publish(update_balance_listener, Some(BalanceEvent(balanceEvents + 1)))
    /\ UNCHANGED <<exFrame, update_order_listener, update_executions_listener,
                   exOrders, exExecs, exUnpublished, early>>

\* the account stream and the REST fetches deliver balances over separate
\* connections: a balance reaches the trader in any order of its timestamp
ExPublishStampedBalance ==
    /\ balanceEvents < MaxStampedEvents
    /\ balanceEvents' = balanceEvents + 1
    /\ \E n \in 1..MaxStampedEvents :
          update_balance_listener' =
              Publish(update_balance_listener, Some(BalanceEvent(n)))
    /\ UNCHANGED <<exFrame, update_order_listener, update_executions_listener,
                   exOrders, exExecs, exUnpublished, early>>

\* the account socket fails: the exchange records the time of the error
ExSocketError ==
    /\ socketErrors < MaxSocketErrors
    /\ socketErrors' = socketErrors + 1
    /\ exchange_socket_error' = Some(socketErrors + 1)
    /\ UNCHANGED <<setVars, strategy_data,
                   current_balance_listener, update_balance_listener,
                   update_order_listener, update_executions_listener,
                   signal_listener, current_trade_listener, trading_data_listener,
                   trading_data_update_listener, temp_executions, barPc, sigVars,
                   envVars, appended, blocked>>

\* the executions of a set in the order of their ids
RECURSIVE ExecutionsById(_)
ExecutionsById(executions) ==
    IF executions = {} THEN <<>>
    ELSE LET first == CHOOSE e \in executions : \A o \in executions : e.id <= o.id
         IN <<first>> \o ExecutionsById(executions \ {first})

\* the exchange's orders that are in flight in the ledger
InFlightOrders == {id \in 1..Len(exOrders) : exOrders[id].uuid \in LedgerUuids}

\* update_position_data_on_faulty_exchange_ws returns and the StrategyData
\* arm runs to its end.  The resync fetched the current balance, the latest
\* order in flight and its executions and published them on the update
\* subjects; it may clear the recorded error.
ResyncReturn ==
    /\ barPc = "resync"
    /\ barPc' = "run"
    /\ strategy_data' = Nil
    /\ exchange_socket_error' \in {exchange_socket_error, None}
    /\ update_balance_listener' =
          Publish(update_balance_listener, Some(BalanceEvent(balanceEvents)))
    /\ IF InFlightOrders = {}
       THEN UNCHANGED <<update_order_listener, update_executions_listener>>
       ELSE LET id == CHOOSE i \in InFlightOrders : \A j \in InFlightOrders : j <= i
                executions == {e \in exExecs : e.order_uuid = exOrders[id].uuid}
            IN /\ update_order_listener' =
                     Publish(update_order_listener,
                             Some([action |-> IF exOrders[id].status = "Cancelled"
                                              THEN "Cancel" ELSE "Update",
                                   order |-> OrderOf(exOrders[id])]))
               /\ update_executions_listener' =
                     IF executions = {} THEN update_executions_listener
                     ELSE Publish(update_executions_listener,
                                  ExecutionsById(executions))
    /\ Decorate(strategy_data)
    /\ UNCHANGED <<setVars, socketErrors,
                   current_balance_listener, signal_listener,
                   current_trade_listener, temp_executions, sigVars, envVars,
                   appended, blocked>>

(***************************************************************************)
(* The benchmark simulator (strategy.rs compute_benchmark_positions): a    *)
(* walk over the rows of the historical window.  Amounts are integers,     *)
(* rates are percentages; the `returns` column and the trailing stop loss  *)
(* (never configured here) are left out.  A row is read when the walk      *)
(* reaches it: the walk at bar i reads rows i-1 and i only.                *)
(***************************************************************************)
\* the signal columns of a row of the window
BenchmarkFlagSets ==
    {{}, {"go_long"}, {"go_short"}, {"close_long"}, {"close_short"}}

\* the prices of a bar: flat, a dip that recovers, a drop, a rise
BarPrices ==
    [flat |-> [open |-> 10, high |-> 10, low |-> 10, close |-> 10],
     dip  |-> [open |-> 10, high |-> 10, low |-> 8,  close |-> 10],
     drop |-> [open |-> 10, high |-> 10, low |-> 8,  close |-> 8],
     rise |-> [open |-> 10, high |-> 12, low |-> 10, close |-> 12]]

BenchmarkRow(prices, flags) ==
    [open |-> prices.open, high |-> prices.high, low |-> prices.low,
     close |-> prices.close, flags |-> flags]

\* the rows a window is made of
BenchmarkRows ==
    {BenchmarkRow(BarPrices.flat, flags) : flags \in BenchmarkFlagSets} \cup
    {BenchmarkRow(BarPrices[kind], {}) : kind \in {"dip", "drop", "rise"}}

\* TradingSettings, benchmark_balance, the exchange's fee rate
BenchmarkSettings ==
    [leverage : {1, 2},
     stop_loss : {None, Some(10)},
     take_profit : {None, Some(10)},
     sinals_revert_its_opposite : BOOLEAN,
     fee : {10},
     benchmark_balance : {100}]

\* the traded contract
Contract == [minimum_order_size |-> 1, maximum_order_size |-> 100]

\* fee of an order: units * price * fee rate
OrderFee(settings, order_units, price) ==
    (order_units * price * settings.fee) \div 100

\* create_benchmark_open_order: units = balance * leverage /
\* (price * (1 + 2 * fee * leverage +- fee)), clamped and rounded down; None
\* stands for Err
create_benchmark_open_order(settings, timestamp, side, order_cost, price) ==
    LET leverage == settings.leverage
        denominator ==
            price * (100 + 2 * settings.fee * leverage
                         + (IF side = "Buy" THEN settings.fee ELSE 0 - settings.fee))
        sized == (order_cost * leverage * 100) \div denominator
        order_units == IF sized > Contract.maximum_order_size
                       THEN Contract.maximum_order_size ELSE sized
    IN IF order_units < Contract.minimum_order_size
       THEN None
       ELSE Some([side |-> side, units |-> order_units, price |-> price,
                  timestamp |-> timestamp, leverage |-> leverage,
                  fee |-> OrderFee(settings, order_units, price),
                  status |-> "Filled"])

\* Order::get_order_cost: initial margin + open fee + expected close fee
get_order_cost(settings, order) ==
    (order.units * order.price) \div order.leverage
        + order.fee + OrderFee(settings, order.units, order.price)

\* create_benchmark_close_order
create_benchmark_close_order(settings, timestamp, close_price, opening_order, final_status) ==
    [side |-> OppositeSide(opening_order.side), units |-> opening_order.units,
     price |-> close_price, timestamp |-> timestamp,
     leverage |-> opening_order.leverage,
     fee |-> OrderFee(settings, opening_order.units, close_price),
     status |-> final_status]

\* `open_order.into()` and Trade::update_trade with a close order
BenchmarkTrade(opening_order, close_order) ==
    [open_order |-> opening_order, close_order |-> close_order]

\* Trade::calculate_pnl_and_returns: the pnl of a closed trade
calculate_pnl(trade) ==
    LET opening_order == trade.open_order
        close_order == Unwrap(trade.close_order)
    IN opening_order.units * (close_order.price - opening_order.price)
           * SideToPosition(opening_order.side)
       - opening_order.fee - close_order.fee

\* the threshold prices of a trade
bankruptcy_price(order) ==
    IF order.side = "Buy"
    THEN (order.price * (order.leverage - 1)) \div order.leverage
    ELSE (order.price * (order.leverage + 1)) \div order.leverage

stop_loss_price(order, percentage) ==
    IF order.side = "Buy"
    THEN order.price - (order.price * percentage) \div 100
    ELSE order.price + (order.price * percentage) \div 100

take_profit_price(order, percentage) ==
    IF order.side = "Buy"
    THEN order.price + (order.price * percentage) \div 100
    ELSE order.price - (order.price * percentage) \div 100

\* the price fell to the threshold (of a long) or rose to it (of a short)
Reached(side, price, threshold) ==
    IF side = "Buy" THEN price <= threshold ELSE price >= threshold

\* Trade::check_price_level_modifiers: the one price it is given is compared
\* with the thresholds, bankruptcy first, then stop loss, then take profit;
\* on a hit the trade is closed at the threshold price
check_price_level_modifiers(settings, trade, timestamp, price) ==
    LET order == trade.open_order
        closed(threshold, final_status) ==
            Some(BenchmarkTrade(order,
                    Some(create_benchmark_close_order(
                            settings, timestamp, threshold, order, final_status))))
    IN IF /\ settings.leverage > 1
          /\ Reached(order.side, price, bankruptcy_price(order))
       THEN closed(bankruptcy_price(order), "StoppedBR")
       ELSE IF /\ IsSome(settings.stop_loss)
               /\ Reached(order.side, price,
                          stop_loss_price(order, Unwrap(settings.stop_loss)))
       THEN closed(stop_loss_price(order, Unwrap(settings.stop_loss)), "StoppedSL")
       ELSE IF /\ IsSome(settings.take_profit)
               /\ Reached(OppositeSide(order.side), price,
                          take_profit_price(order, Unwrap(settings.take_profit)))
       THEN closed(take_profit_price(order, Unwrap(settings.take_profit)),
                   "StoppedTP")
       ELSE None

\* the action column of a stopped trade
StopAction(final_status) ==
    CASE final_status = "StoppedBR" -> "leverage_bankruptcy"
      [] final_status = "StoppedSL" -> "stop_loss"
      [] final_status = "StoppedTP" -> "take_profit"
      [] OTHER -> "keep_position"

\* a walk in which no signal reverts a position
was_position_kept(settings, flags, current_side) == FALSE

\* `sinals_revert_its_opposite && (longs && Sell) || (shorts && Buy)`: `&&`
\* binds tighter than `||`
was_position_reverted(settings, flags, current_side) ==
    \/ /\ settings.sinals_revert_its_opposite
       /\ "go_long" \in flags
       /\ current_side = "Sell"
    \/ /\ "go_short" \in flags
       /\ current_side = "Buy"

\* one round of the loop `for index in 0..dataframe_height` (index >= 1):
\* what it pushes on the columns, and current_trade after it
BenchmarkBar(settings, prev, row, index, current_position, current_units, current_balance, current_trade) ==
    LET start_timestamp == index
        end_timestamp == index - 1
        prev_end_timestamp == index - 2
        keep == [fee |-> 0, units |-> current_units, pnl |-> 0,
                 balance |-> current_balance, position |-> current_position,
                 action |-> "keep_position", trade |-> current_trade]
        opened(opening_order, action) ==
            LET left == current_balance - get_order_cost(settings, opening_order) IN
            [fee |-> opening_order.fee, units |-> opening_order.units, pnl |-> 0,
             balance |-> IF left > 0 THEN left ELSE 0,
             position |-> SideToPosition(opening_order.side),
             action |-> action,
             trade |-> Some(BenchmarkTrade(opening_order, None))]
    IN
    IF current_position = 0
    THEN LET short == create_benchmark_open_order(
                          settings, start_timestamp, "Sell", current_balance, row.open)
             long == create_benchmark_open_order(
                          settings, start_timestamp, "Buy", current_balance, row.open)
         IN IF "go_short" \in prev.flags /\ IsSome(short)
            THEN opened(Unwrap(short), "go_short")
            ELSE IF "go_long" \in prev.flags /\ IsSome(long)
            THEN opened(Unwrap(long), "go_long")
            ELSE keep
    ELSE LET trade == Unwrap(current_trade)
             current_side == trade.open_order.side
             order_cost == get_order_cost(settings, trade.open_order)
             closed(closed_trade, action) ==
                 LET pnl == calculate_pnl(closed_trade) IN
                 [fee |-> Unwrap(closed_trade.close_order).fee, units |-> 0,
                  pnl |-> pnl, balance |-> current_balance + order_cost + pnl,
                  position |-> 0, action |-> action, trade |-> None]
             stopped ==
                 IF \/ settings.leverage > 1
                    \/ IsSome(settings.stop_loss)
                    \/ IsSome(settings.take_profit)
                 THEN check_price_level_modifiers(
                          settings, trade, prev_end_timestamp, prev.close)
                 ELSE None
             was_long_closed == "close_long" \in prev.flags /\ current_side = "Buy"
             was_short_closed == "close_short" \in prev.flags /\ current_side = "Sell"
             reverted == was_position_reverted(settings, prev.flags, current_side)
             close_order == create_benchmark_close_order(
                                settings, start_timestamp, row.open,
                                trade.open_order, "Closed")
             updated_trade == BenchmarkTrade(trade.open_order, Some(close_order))
         IN IF IsSome(stopped)
            THEN closed(Unwrap(stopped),
                        StopAction(Unwrap(Unwrap(stopped).close_order).status))
            ELSE IF was_long_closed \/ was_short_closed \/ reverted
            THEN IF ~reverted
                 THEN closed(updated_trade,
                             IF was_long_closed THEN "close_long" ELSE "close_short")
                 ELSE LET pnl == calculate_pnl(updated_trade)
                          after_close_balance == current_balance + order_cost + pnl
                          opening_order == create_benchmark_open_order(
                                            settings, end_timestamp, close_order.side,
                                            after_close_balance, row.close)
                      IN IF IsSome(opening_order)
                         THEN LET left == after_close_balance
                                            - get_order_cost(settings, Unwrap(opening_order))
                              IN [fee |-> close_order.fee + Unwrap(opening_order).fee,
                                  units |-> Unwrap(opening_order).units,
                                  pnl |-> pnl,
                                  balance |-> IF left > 0 THEN left ELSE 0,
                                  position |-> SideToPosition(Unwrap(opening_order).side),
                                  action |-> "revert_position",
                                  trade |-> Some(BenchmarkTrade(Unwrap(opening_order), None))]
                         ELSE [fee |-> close_order.fee, units |-> 0, pnl |-> pnl,
                               balance |-> after_close_balance, position |-> 0,
                               action |-> "close_position", trade |-> None]
            ELSE keep

\* compute_benchmark_positions is called: the columns hold their first
\* element and the walk stands before index 1
BenchmarkInit ==
    /\ TraderInit
    /\ ~is_data_gather_only
    /\ FeedLive
    /\ PipelineIdle
    /\ benchPc = "loop"
    /\ benchmark_settings \in BenchmarkSettings
    /\ window \in {<<row>> : row \in BenchmarkRows}
    /\ trade_fees = <<0>>
    /\ units_col = <<0>>
    /\ profit_and_loss = <<0>>
    /\ balances = <<benchmark_settings.benchmark_balance>>
    /\ positions = <<0>>
    /\ actions = <<"keep_position">>
    /\ benchmark_trade = None

benchFrame == <<traderFrame, feedVars, pipeVars, tickVars, trading_data_update_listener, barsCommitted>>

\* one round of the loop, on the next row of the window
BenchmarkStep ==
    /\ benchPc = "loop"
    /\ Len(window) < BenchBars
    /\ \E row \in BenchmarkRows :
          LET index == Len(window)
              bar == BenchmarkBar(benchmark_settings, window[index], row, index,
                                  positions[index], units_col[index],
                                  balances[index], benchmark_trade)
          IN /\ window' = Append(window, row)
             /\ trade_fees' = Append(trade_fees, bar.fee)
             /\ units_col' = Append(units_col, bar.units)
             /\ profit_and_loss' = Append(profit_and_loss, bar.pnl)
             /\ balances' = Append(balances, bar.balance)
             /\ positions' = Append(positions, bar.position)
             /\ actions' = Append(actions, bar.action)
             /\ benchmark_trade' = bar.trade
    /\ UNCHANGED <<benchFrame, benchPc, benchmark_settings>>

\* a patch that leaves the row after `from` as the walk wrote it
SpliceLate(column, from, value) ==
    [i \in 1..Len(column) |-> IF i > from + 1 THEN value ELSE column[i]]

\* the patch of the tail rewind: the column from `from` on holds `value`
Splice(column, from, value) ==
    [i \in 1..Len(column) |-> IF i >= from THEN value ELSE column[i]]

\* the window is exhausted (dataframe_height rows): `if last position was
\* taken`, the columns are spliced from the last flat row on
BenchmarkRewind ==
    /\ benchPc = "loop"
    /\ benchPc' = "done"
    /\ IF positions[Len(positions)] # 0
       THEN LET before_last_order_index ==
                    CHOOSE i \in 1..Len(positions) :
                        /\ positions[i] = 0
                        /\ \A j \in (i + 1)..Len(positions) : positions[j] # 0
            IN /\ trade_fees' = Splice(trade_fees, before_last_order_index, 0)
               /\ units_col' = Splice(units_col, before_last_order_index, 0)
               /\ profit_and_loss' =
                     Splice(profit_and_loss, before_last_order_index, 0)
               /\ positions' = Splice(positions, before_last_order_index, 0)
               /\ actions' =
                     Splice(actions, before_last_order_index, "keep_position")
               /\ balances' = Splice(balances, before_last_order_index,
                                     balances[before_last_order_index])
       ELSE UNCHANGED <<trade_fees, units_col, profit_and_loss, positions,
                        actions, balances>>
    /\ UNCHANGED <<benchFrame, benchmark_settings, window, benchmark_trade>>

BenchmarkNext ==
    \/ BenchmarkStep
    \/ BenchmarkRewind

SpecBenchmark == BenchmarkInit /\ [][BenchmarkNext]_vars

\* a benchmark_balance that buys one unit at most, so that
\* create_benchmark_open_order fails once fees have been paid
SmallBalance == 14

\* the settings of the walk, with the small balance next to the usual one
WalkSettings ==
    BenchmarkSettings \cup
    {[settings EXCEPT !.benchmark_balance = SmallBalance] :
        settings \in BenchmarkSettings}

WalkInit ==
    /\ TraderInit
    /\ ~is_data_gather_only
    /\ FeedLive
    /\ PipelineIdle
    /\ benchPc = "loop"
    /\ benchmark_settings \in WalkSettings
    /\ window \in {<<row>> : row \in BenchmarkRows}
    /\ trade_fees = <<0>>
    /\ units_col = <<0>>
    /\ profit_and_loss = <<0>>
    /\ balances = <<benchmark_settings.benchmark_balance>>
    /\ positions = <<0>>
    /\ actions = <<"keep_position">>
    /\ benchmark_trade = None

SpecWalk == WalkInit /\ [][BenchmarkNext]_vars

(***************************************************************************)
(* The signal stage of the strategy pipeline.  A table is a sequence of    *)
(* rows [start_time, fast_ema, slow_ema, signals]; the EMA columns are the *)
(* indicator stage's output and are inputs here.  start_time is strictly   *)
(* increasing, so the left join on start_time pairs each row with one row. *)
(***************************************************************************)
MaxRows == 4
EmaValues == {1, 2}

\* the signals of the strategy, in the order of its `signals` vector
Signals == <<"GoShort", "GoLong", "CloseLong", "CloseShort">>
SignalSet == {Signals[k] : k \in 1..Len(Signals)}

\* a row as it enters a stage: the signal columns hold whatever the schema
\* put there
TableRow(start_time, fast_ema, slow_ema, placeholder) ==
    [start_time |-> start_time, fast_ema |-> fast_ema, slow_ema |-> slow_ema,
     signals |-> placeholder]

\* LazyFrame::collect: the frame as a sequence of rows
Collect(lf) == SubSeq(lf, 1, Len(lf))

\* `when(<crossing>).then(lit(1)).otherwise(lit(0))`: shift(1) is null on
\* the first row and a null condition takes the otherwise branch
SignalValue(signal, lf, i) ==
    IF i = 1 THEN 0
    ELSE IF signal = "GoShort"
         THEN IF /\ lf[i].fast_ema < lf[i].slow_ema
                 /\ lf[i - 1].slow_ema <= lf[i - 1].fast_ema
              THEN 1 ELSE 0
         ELSE IF /\ lf[i].fast_ema > lf[i].slow_ema
                 /\ lf[i - 1].slow_ema >= lf[i - 1].fast_ema
              THEN 1 ELSE 0

\* set_signal_column: the frame [start_time, signal column]
set_signal_column(signal, lf) ==
    Collect([i \in 1..Len(lf) |->
        [start_time |-> lf[i].start_time, value |-> SignalValue(signal, lf, i)]])

\* data.left_join(lf, "start_time", "start_time")
left_join(data, lf, signal) ==
    Collect([i \in 1..Len(data) |->
        LET j == CHOOSE k \in 1..Len(lf) : lf[k].start_time = data[i].start_time
        IN [data[i] EXCEPT !.signals[signal] = lf[j].value]])

RECURSIVE set_signals_from(_, _)
set_signals_from(k, data) ==
    IF k > Len(Signals) THEN data
    ELSE set_signals_from(k + 1,
             left_join(data, set_signal_column(Signals[k], data), Signals[k]))

\* set_signals_data: every signal's column joined to the table
set_signals_data(data) == set_signals_from(1, data)

\* an update that leaves the column as it came in
update_signal_column_stale(signal, data) == data

\* update_signal_column: the column is computed over the whole frame and
\* replaces the frame's column, row by row
update_signal_column(signal, data) ==
    LET new_df == set_signal_column(signal, data)
    IN Collect([i \in 1..Len(data) |->
                   [data[i] EXCEPT !.signals[signal] = new_df[i].value]])

RECURSIVE update_signals_from(_, _)
update_signals_from(k, data) ==
    IF k > Len(Signals) THEN data
    ELSE update_signals_from(k + 1, update_signal_column(Signals[k], data))

update_signals_data(data) == update_signals_from(1, data)

\* update_strategy_data: vstack, then the stages; the row arrives with the
\* EMA values the indicator stage gives it
vstack_and_update(trading_data, tick_data) ==
    update_signals_data(Append(trading_data, tick_data))

\* the rows a committed bar can be: the next start_time, any EMA values, any
\* content of the signal columns
NextRows(start_time) ==
    {TableRow(start_time, f, w, p) :
        f \in EmaValues, w \in EmaValues, p \in [SignalSet -> {0, 1}]}

\* set_strategy_data was run over the bootstrap table of one row
PipelineInit ==
    /\ TraderInit
    /\ ~is_data_gather_only
    /\ FeedLive
    /\ BenchmarkDone
    /\ last_period_tick_df = None
    /\ \E row \in NextRows(1) : trading_data_df = set_signals_data(<<row>>)

pipeFrame == <<traderFrame, feedVars, benchVars, tickVars, trading_data_update_listener, barsCommitted>>

\* the MarketData arm: update_strategy_data over the table and the new bar
PipelineMarketData ==
    /\ Len(trading_data_df) < MaxRows
    /\ \E row \in NextRows(Len(trading_data_df) + 1) :
          /\ last_period_tick_df' = Some(row)
          /\ trading_data_df' = vstack_and_update(trading_data_df, row)
    /\ UNCHANGED pipeFrame

PipelineNext == PipelineMarketData

SpecPipeline == PipelineInit /\ [][PipelineNext]_vars

Next ==
    \/ UpdateBalanceHandle
    \/ UpdateOrderHandle
    \/ UpdateExecutionsHandle
    \/ CurrentTradeUpdateHandle
    \/ ProcessMarketData
    \/ ProcessStrategyData
    \/ ProcessEmitSignal
    \/ ProcessCleanUp
    \/ DataFeedCommit
    \/ SignalHandle
    \/ SignalLoop
    \/ CancelResolve
    \/ OpenResolve
    \/ AmendResolve
    \/ CloseResolve
    \/ ExFill
    \/ ExPublishOrder
    \/ ExPublishExecution
    \/ ExPublishBalance

Spec == Init /\ [][Next]_vars

(***************************************************************************)
(* The reconciliation scenarios: a trading engine (not data-gather-only)   *)
(* whose bars carry no other flag than go_long, with more executions and   *)
(* no balance event.                                                       *)
(***************************************************************************)
ReconInit == Init /\ ~is_data_gather_only

ReconNext ==
    \/ UpdateOrderHandle
    \/ UpdateExecutionsHandle
    \/ CurrentTradeUpdateHandle
    \/ ProcessMarketData
    \/ ProcessStrategyData
    \/ ProcessEmitSignal
    \/ ProcessCleanUp
    \/ ReconDataFeedCommit
    \/ SignalHandle
    \/ SignalLoop
    \/ OpenResolve
    \/ ReconExFill
    \/ ExPublishOrder
    \/ ExPublishExecution

SpecRecon == ReconInit /\ [][ReconNext]_vars

(***************************************************************************)
(* The ownership scenarios: a trading engine whose every bar signals       *)
(* go_long, so that a second opener can be placed while the ledger is      *)
(* still empty, and an exchange that fills an order in one execution.  The *)
(* current-trade task is left out: no trade is cancelled or closed here,   *)
(* and it would only mark the ledger's value as seen.                      *)
(***************************************************************************)
OwnFlagSets == {{"go_long"}}

OwnDataFeedCommit == DataFeedCommitOf(OwnFlagSets, MaxBars)

\* the exchange fills the whole of what is left of an order
OwnExFill ==
    /\ ExFillUpTo(MaxReconExecs)
    /\ \A id \in 1..Len(exOrders) : exOrders'[id].status # "PartiallyFilled"

OwnInit == Init /\ ~is_data_gather_only

OwnNext ==
    \/ UpdateOrderHandle
    \/ UpdateExecutionsHandle
    \/ ProcessMarketData
    \/ ProcessStrategyData
    \/ ProcessEmitSignal
    \/ ProcessCleanUp
    \/ OwnDataFeedCommit
    \/ SignalHandle
    \/ SignalLoop
    \/ OpenResolve
    \/ OwnExFill
    \/ ExPublishOrder
    \/ ExPublishExecution

SpecOwnership == OwnInit /\ [][OwnNext]_vars

(***************************************************************************)
(* adjust_benchmark_datetimes (binance/structs.rs 522-555), in seconds.    *)
(***************************************************************************)
SECONDS_IN_DAY == 86400
MinimumDaysForAnalysis == 1
MinimumKlines == 2

\* `assert_or_error!`, `unwrap_or_else` and the subtraction, in the order of
\* the code; None is the Err result, `now` is current_datetime() cut to the
\* minute
adjust_benchmark_datetimes(start_arg, end_arg, duration, minimum_days_for_analysis, minimum_klines_for_benchmarking, now) ==
    IF IsSome(start_arg) /\ IsSome(end_arg) /\ ~(Unwrap(end_arg) > Unwrap(start_arg))
    THEN None
    ELSE LET end == IF IsSome(end_arg) THEN Unwrap(end_arg) ELSE now
             minimum_days == IF IsSome(minimum_days_for_analysis)
                             THEN Unwrap(minimum_days_for_analysis) ELSE 1
             start_or_default == IF IsSome(start_arg) THEN Unwrap(start_arg)
                                 ELSE end - minimum_days * SECONDS_IN_DAY
             start == start_or_default - duration * minimum_klines_for_benchmarking
         IN IF end > start THEN Some(<<start, end>>) ELSE None

\* the arguments init is called with: no end or an end two days after the
\* epoch; no start or a start around the end and around one day before it
AdjustEnd == 2 * SECONDS_IN_DAY
AdjustEndArgs == {None, Some(AdjustEnd)}
AdjustStartArgs ==
    {None} \cup {Some(AdjustEnd - d) :
                    d \in {-60, 0, 60, SECONDS_IN_DAY - 60, SECONDS_IN_DAY,
                           SECONDS_IN_DAY + 60, AdjustEnd}}
AdjustNows == {AdjustEnd + 60, AdjustEnd + SECONDS_IN_DAY}

AdjustArgs ==
    /\ TraderInit
    /\ BenchmarkDone
    /\ PipelineIdle
    /\ feedResult = "none"
    /\ run_benchmark_only \in BOOLEAN
    /\ httpFailed = FALSE
    /\ wss = "none"
    /\ last_ws_error_ts = None
    /\ connects = 0
    /\ ticks_to_commit = Subject(<<>>)
    /\ staged_ticks = <<>>
    /\ socket = <<>>
    /\ socket_read = 0
    /\ yielded_trade = None
    /\ benchmark_start \in AdjustStartArgs
    /\ benchmark_end \in AdjustEndArgs
    /\ current_staged_kline_minute = 0
    /\ downsampled = None

AdjustInit ==
    /\ AdjustArgs
    /\ feedPc = "init"
    /\ granularity = "m1"
    /\ kline_duration \in KlineDurations

\* init: `let (benchmark_start, benchmark_end) =
\* adjust_benchmark_datetimes(..)?`
AdjustDatetimes ==
    /\ feedPc = "init"
    /\ \E now \in AdjustNows :
          LET adjusted == adjust_benchmark_datetimes(
                              benchmark_start, benchmark_end, kline_duration,
                              Some(MinimumDaysForAnalysis), MinimumKlines, now)
          IN IF IsSome(adjusted)
             THEN /\ benchmark_start' = Unwrap(adjusted)[1]
                  /\ benchmark_end' = Unwrap(adjusted)[2]
                  /\ feedPc' = "history"
                  /\ UNCHANGED feedResult
             ELSE /\ FeedReturn("Err")
                  /\ UNCHANGED <<benchmark_start, benchmark_end>>
    /\ UNCHANGED <<feedFrame, run_benchmark_only, httpFailed, wss,
                   last_ws_error_ts, connects, ticks_to_commit, staged_ticks,
                   socket, socket_read, yielded_trade,
                   granularity, kline_duration,
                   current_staged_kline_minute, downsampled,
                   trading_data_update_listener, barsCommitted>>

AdjustNext == AdjustDatetimes

SpecAdjust == AdjustInit /\ [][AdjustNext]_vars

(***************************************************************************)
(* Granularity (common/enums/granularity.rs).                              *)
(***************************************************************************)
\* the variants in the order of the enumeration
Granularities ==
    <<"m1", "m3", "m5", "m10", "m15", "m30", "h1", "h2", "h4", "h6", "h12",
      "d1", "w1", "M1">>

\* Granularity::get_granularity_in_secs, arm by arm
get_granularity_in_secs(self) ==
    CASE self = "m1" -> 60
      [] self = "m3" -> 3 * 60
      [] self = "m5" -> 5 * 60
      [] self = "m10" -> 10 * 60
      [] self = "m15" -> 15 * 60
      [] self = "m30" -> 30 * 60
      [] self = "h1" -> 60 * 60
      [] self = "h2" -> 2 * 60 * 20
      [] self = "h4" -> 4 * 60 * 60
      [] self = "h6" -> 6 * 60 * 60
      [] self = "h12" -> 12 * 60 * 60
      [] self = "d1" -> 1 * 24 * 60 * 60
      [] self = "w1" -> 7 * 24 * 60 * 60
      [] self = "M1" -> 30 * 24 * 60 * 60

\* Granularity::get_granularity_in_mins
get_granularity_in_mins(self) == get_granularity_in_secs(self) \div 60

\* the data provider is built for any granularity; its kline duration is
\* not set yet
GranularityInit ==
    /\ AdjustArgs
    /\ feedPc = "new"
    /\ granularity \in {Granularities[k] : k \in 1..Len(Granularities)}
    /\ kline_duration = 0

\* the kline duration of the provider is the period of its granularity
SetKlineDuration ==
    /\ feedPc = "new"
    /\ feedPc' = "init"
    /\ kline_duration' = get_granularity_in_secs(granularity)
    /\ UNCHANGED <<feedFrame, feedResult, run_benchmark_only, httpFailed, wss,
                   last_ws_error_ts, connects, ticks_to_commit, staged_ticks,
                   socket, socket_read, yielded_trade,
                   granularity, benchmark_start,
                   benchmark_end, current_staged_kline_minute, downsampled,
                   trading_data_update_listener, barsCommitted>>

GranularityNext ==
    \/ SetKlineDuration
    \/ AdjustDatetimes

SpecGranularity == GranularityInit /\ [][GranularityNext]_vars

(***************************************************************************)
(* update_trading_data over the whole decorated table (trader.rs           *)
(* 943-1118): the seven decorated columns of every row, a null as None.    *)
(***************************************************************************)
DecoratedRow(start_time, trade_fees_value, units_value, pnl, returns_value, balance, position, action) ==
    [start_time |-> start_time, trade_fees |-> trade_fees_value,
     units |-> units_value, profit_and_loss |-> pnl, returns |-> returns_value,
     balance |-> balance, position |-> position, action |-> action]

\* the row update_strategy_data appends for a committed bar: the decorated
\* columns are still null
UndecoratedRow(start_time) ==
    DecoratedRow(start_time, None, None, None, None, None, None, None)

\* what Trade::get_executed_fees_between_interval, get_interval_units and
\* calculate_current_pnl_and_returns give for the interval of the bar
IntervalValues ==
    {[fee |-> fee, units |-> OrderUnits, pnl |-> 1 - 2 * fee, returns |-> 1 - 2 * fee] :
        fee \in {0, 1}}

\* a decorator that writes the row before the trailing one
update_trading_data_df_previous(strategy_updated_data, balance, signal, trade, interval) ==
    LET index == Len(strategy_updated_data) - 1
        action == IF IsSome(signal) THEN Unwrap(signal) ELSE "KeepPosition"
    IN [strategy_updated_data EXCEPT
           ![index].balance = Some(balance.available_to_withdraw),
           ![index].action = Some(action),
           ![index].position = Some(0)]

\* update_trading_data (Ok result; the table holds two rows at least)
update_trading_data_df(strategy_updated_data, balance, signal, trade, interval) ==
    LET index == Len(strategy_updated_data)
        action == IF IsSome(signal) THEN Unwrap(signal) ELSE "KeepPosition"
        with_balance ==
            [strategy_updated_data EXCEPT
                ![index].balance = Some(balance.available_to_withdraw),
                ![index].action = Some(action)]
    IN IF IsSome(trade)
       THEN IF status(Unwrap(trade)) \in {"Cancelled", "Closed"}
            THEN with_balance
            ELSE [with_balance EXCEPT
                     ![index].trade_fees = Some(interval.fee),
                     ![index].units = Some(interval.units),
                     ![index].profit_and_loss = Some(interval.pnl),
                     ![index].returns = Some(interval.returns),
                     ![index].position =
                         Some(SideToPosition(Unwrap(trade).open_order.side))]
       ELSE [with_balance EXCEPT
                ![index].trade_fees = Some(0),
                ![index].units = Some(0),
                ![index].profit_and_loss = Some(0),
                ![index].returns = Some(0),
                ![index].position = Some(0)]

\* the trades the ledger may hold when a bar closes
LedgerOrder(side, order_status) ==
    [id |-> 1, uuid |-> 1, side |-> side, units |-> OrderUnits,
     status |-> order_status, is_close |-> FALSE, is_stop |-> FALSE,
     executions |-> {}]

LedgerCloseOrder(side) ==
    [id |-> 2, uuid |-> 2, side |-> side, units |-> OrderUnits,
     status |-> "Filled", is_close |-> TRUE, is_stop |-> FALSE,
     executions |-> {}]

LedgerTrades ==
    {NewTrade(LedgerOrder("Buy", "New"), None),
     NewTrade(LedgerOrder("Sell", "Filled"), None)}
    \cup {NewTrade(LedgerOrder("Buy", "Cancelled"), None),
          NewTrade(LedgerOrder("Sell", "Filled"), Some(LedgerCloseOrder("Buy")))}

\* the table after the benchmark: two rows, decorated
DecorateInit ==
    /\ TraderInit
    /\ FeedLive
    /\ BenchmarkDone
    /\ ~is_data_gather_only
    /\ last_period_tick_df = None
    /\ trading_data_df =
          <<DecoratedRow(0, Some(0), Some(0), Some(0), Some(0),
                         Some(InitialBalance.available_to_withdraw), Some(0),
                         Some("KeepPosition")),
            DecoratedRow(kline_duration, Some(0), Some(0), Some(0), Some(0),
                         Some(InitialBalance.available_to_withdraw), Some(0),
                         Some("KeepPosition"))>>

\* the ledger and the balance change between two bars
LedgerEvent ==
    /\ \E trade \in {None} \cup {Some(t) : t \in LedgerTrades} :
          current_trade_listener' = Subject(trade)
    /\ \E n \in 0..MaxBalanceEvents :
          current_balance_listener' = BalanceEvent(n)
    /\ <<current_trade_listener', current_balance_listener'>>
          # <<current_trade_listener, current_balance_listener>>
    /\ UNCHANGED <<cfgVars, update_balance_listener, update_order_listener,
                   update_executions_listener, signal_listener,
                   trading_data_listener, trading_data_update_listener,
                   temp_executions, barPc, sigVars, envVars, appended, blocked>>

tableFrame == <<is_data_gather_only, trading_settings, feedVars, benchVars,
                tickVars, last_period_tick_df, wsVars,
                current_balance_listener, update_balance_listener,
                update_order_listener, update_executions_listener,
                signal_listener, current_trade_listener, trading_data_listener,
                trading_data_update_listener, temp_executions, barPc, sigVars,
                envVars, appended, blocked>>

\* update_strategy_data appends the row of the committed bar
DecorateNewBar ==
    /\ Len(trading_data_df) < MaxRows
    /\ IsSome(trading_data_df[Len(trading_data_df)].action)
    /\ trading_data_df' =
          Append(trading_data_df,
                 UndecoratedRow(trading_data_df[Len(trading_data_df)].start_time
                                + kline_duration))
    /\ UNCHANGED tableFrame

\* the StrategyData stage decorates the table
DecorateTable ==
    /\ ~IsSome(trading_data_df[Len(trading_data_df)].action)
    /\ \E interval \in IntervalValues :
          trading_data_df' =
              update_trading_data_df(trading_data_df,
                                     current_balance_listener,
                                     signal_listener.value,
                                     current_trade_listener.value, interval)
    /\ UNCHANGED tableFrame

DecorateNext ==
    \/ LedgerEvent
    \/ DecorateNewBar
    \/ DecorateTable

SpecDecorate == DecorateInit /\ [][DecorateNext]_vars

(***************************************************************************)
(* The EmitSignal stage over every trailing row: the decorated row of a    *)
(* bar waits for the stage with any set of signal flags and any position.  *)
(***************************************************************************)
TrailingRows ==
    {[price |-> BarClose(1), flags |-> flags, position |-> Some(position)] :
        flags \in SUBSET SignalColumns, position \in {-1, 0, 1}}

EmitInit == Init /\ ~is_data_gather_only

\* the stages before EmitSignal hand over a decorated trailing row
EmitRow ==
    /\ barPc = "run"
    /\ ~trading_data_update_listener.fresh
    /\ \E trading_data \in TrailingRows :
          /\ trading_data_listener' =
                [price |-> trading_data.price, position |-> trading_data.position]
          /\ trading_data_update_listener' =
                Publish(trading_data_update_listener, EmitSignal(trading_data))
    /\ UNCHANGED <<cfgVars, current_balance_listener, update_balance_listener,
                   update_order_listener, update_executions_listener,
                   signal_listener, current_trade_listener, temp_executions,
                   barPc, sigVars, envVars, appended, blocked>>

EmitNext ==
    \/ EmitRow
    \/ ProcessEmitSignal
    \/ ProcessCleanUp

SpecEmit == EmitInit /\ [][EmitNext]_vars

(***************************************************************************)
(* The order handler against the account socket as such: the socket may    *)
(* deliver any order event and any execution, whatever the engine asked    *)
(* for.  Openers carry the uuids 1..MaxOrders, the close order the next    *)
(* uuid and the stop order the one after; a Stop event carries the stop    *)
(* order in one of the stopped statuses; the executions are those of       *)
(* openers.                                                                *)
(***************************************************************************)
EventOrder(id, order_status, is_close, is_stop) ==
    [id |-> id, uuid |-> id, side |-> "Buy", units |-> OrderUnits,
     status |-> order_status, is_close |-> is_close, is_stop |-> is_stop,
     executions |-> {}]

OpenEventOrders ==
    {EventOrder(id, order_status, FALSE, FALSE) :
        id \in 1..MaxOrders, order_status \in {"New", "PartiallyFilled", "Filled"}}

CloseEventOrders ==
    {EventOrder(MaxOrders + 1, order_status, TRUE, FALSE) :
        order_status \in {"New", "Filled"}}

StopEventOrders ==
    {EventOrder(MaxOrders + 2, order_status, FALSE, TRUE) :
        order_status \in StopStatuses}

OrderEvents ==
    {[action |-> "Update", order |-> order] :
        order \in OpenEventOrders \cup CloseEventOrders}
    \cup {[action |-> "Stop", order |-> order] : order \in StopEventOrders}
    \cup {[action |-> "Cancel", order |-> cancel(order)] : order \in OpenEventOrders}

\* the account socket delivers an order event
EvOrder ==
    /\ \E order_action \in OrderEvents :
          update_order_listener' = Publish(update_order_listener, Some(order_action))
    /\ UNCHANGED <<exFrame, update_balance_listener, update_executions_listener,
                   envVars>>

\* the account socket delivers an execution
EvExecution ==
    /\ Cardinality(exExecs) < MaxExecs
    /\ \E order_uuid \in 1..MaxOrders :
          LET execution == [id |-> Cardinality(exExecs) + 1,
                            order_uuid |-> order_uuid, units |-> 1]
          IN /\ exExecs' = exExecs \cup {execution}
             /\ update_executions_listener' =
                   Publish(update_executions_listener, <<execution>>)
    /\ UNCHANGED <<exFrame, update_balance_listener, update_order_listener,
                   exOrders, exUnpublished, early, balanceEvents>>

OrdersInit == Init /\ ~is_data_gather_only

OrdersNext ==
    \/ UpdateOrderHandle
    \/ UpdateExecutionsHandle
    \/ CurrentTradeUpdateHandle
    \/ EvOrder
    \/ EvExecution

SpecOrders == OrdersInit /\ [][OrdersNext]_vars

\* the order events alone; the slot-clearing task is a spawned task that
\* runs whenever its stream holds a value it has not seen
StopsNext ==
    \/ UpdateOrderHandle
    \/ CurrentTradeUpdateHandle
    \/ EvOrder

SpecStops ==
    OrdersInit /\ [][StopsNext]_vars /\ WF_vars(CurrentTradeUpdateHandle)

(***************************************************************************)
(* The idle-order scenarios: a trading engine whose orders are never       *)
(* filled, so that the ledger is empty or holds a trade without            *)
(* executions.                                                             *)
(***************************************************************************)
IdleInit == Init /\ ~is_data_gather_only

IdleNext ==
    \/ UpdateBalanceHandle
    \/ UpdateOrderHandle
    \/ CurrentTradeUpdateHandle
    \/ ProcessMarketData
    \/ ProcessStrategyData
    \/ ProcessEmitSignal
    \/ ProcessCleanUp
    \/ DataFeedCommit
    \/ SignalHandle
    \/ SignalLoop
    \/ CancelResolve
    \/ OpenResolve
    \/ ExPublishOrder
    \/ ExPublishBalance

SpecIdle == IdleInit /\ [][IdleNext]_vars

(***************************************************************************)
(* The engine of SpecIdle with balances that arrive in any order of their  *)
(* timestamp.                                                              *)
(***************************************************************************)
BalanceInit == Init /\ ~is_data_gather_only

BalanceNext ==
    \/ UpdateBalanceHandle
    \/ UpdateOrderHandle
    \/ CurrentTradeUpdateHandle
    \/ ProcessMarketData
    \/ ProcessStrategyData
    \/ ProcessEmitSignal
    \/ ProcessCleanUp
    \/ DataFeedCommit
    \/ SignalHandle
    \/ SignalLoop
    \/ CancelResolve
    \/ OpenResolve
    \/ ExPublishOrder
    \/ ExPublishStampedBalance

SpecBalance == BalanceInit /\ [][BalanceNext]_vars

(***************************************************************************)
(* The engine of SpecIdle with an account socket that fails: the bar       *)
(* processor resynchronises over REST at the next bar.                     *)
(***************************************************************************)
ResyncInit == Init /\ ~is_data_gather_only

ResyncNext ==
    \/ UpdateBalanceHandle
    \/ UpdateOrderHandle
    \/ CurrentTradeUpdateHandle
    \/ ProcessMarketData
    \/ ProcessStrategyData
    \/ ProcessEmitSignal
    \/ ProcessCleanUp
    \/ DataFeedCommit
    \/ SignalHandle
    \/ SignalLoop
    \/ CancelResolve
    \/ OpenResolve
    \/ ExPublishOrder
    \/ ExSocketError
    \/ ResyncReturn

SpecResync == ResyncInit /\ [][ResyncNext]_vars

(***************************************************************************)
(* The data feed from the call of init, with the trader's bar processor    *)
(* and signal task behind it.  A task that can run is eventually polled    *)
(* by the runtime, a sleep ends and a connection attempt resolves: the     *)
(* steps of the feed task are weakly fair.  FeedHandleCommittedTicks and   *)
(* FeedListenTicks are steps of the task that no run of FeedSpecAll takes: *)
(* ticks_to_commit is fed by listen_ticks alone, which init calls after    *)
(* handle_committed_ticks_data returned.                                   *)
(***************************************************************************)
FeedInit ==
    /\ TraderInit
    /\ feedPc = "init"
    /\ feedResult = "none"
    /\ run_benchmark_only \in BOOLEAN
    /\ httpFailed = FALSE
    /\ wss = "none"
    /\ last_ws_error_ts = None
    /\ connects = 0
    /\ ticks_to_commit = Subject(<<>>)
    /\ staged_ticks = <<>>
    /\ TicksInit
    /\ benchmark_end = 60
    /\ kline_duration = 60
    /\ BenchmarkDone
    /\ PipelineIdle

FeedTask ==
    \/ FeedAdjust
    \/ FeedFetchHistory
    \/ FeedLastKline
    \/ FeedConnect
    \/ FeedSleep

FeedNext ==
    \/ FeedTask
    \/ ExSocketBreak
    \/ ExTick
    \/ ProcessMarketData
    \/ ProcessStrategyData
    \/ ProcessEmitSignal
    \/ ProcessCleanUp
    \/ SignalHandle
    \/ SignalLoop
    \/ OpenResolve
    \/ ExPublishOrder
    \/ UpdateOrderHandle

SpecFeed == FeedInit /\ [][FeedNext]_vars /\ WF_vars(FeedTask)

FeedSpecAll ==
    FeedInit /\ [][FeedNext \/ FeedHandleCommittedTicks \/ FeedListenTicks]_vars

(***************************************************************************)
(* listen_ticks and handle_committed_ticks_data, each called as a task of  *)
(* its own over one connection, as the bar clock describes them; init      *)
(* itself awaits the second before it calls the first.                     *)
(***************************************************************************)
TicksSpecInit ==
    /\ TraderInit
    /\ BenchmarkDone
    /\ PipelineIdle
    /\ TicksInit
    /\ feedPc = "ticks"
    /\ feedResult = "none"
    /\ run_benchmark_only = FALSE
    /\ httpFailed = FALSE
    /\ wss = "open"
    /\ last_ws_error_ts = None
    /\ connects = 0
    /\ ticks_to_commit = Subject(<<>>)
    /\ staged_ticks = <<>>

TicksListen ==
    /\ feedPc = "ticks"
    /\ ListenTicksRound(feedPc' = "returned")

TicksHandle ==
    /\ feedPc = "ticks"
    /\ HandleCommittedTicksRound(feedPc' = "returned")

TicksNext ==
    \/ TicksListen
    \/ TicksHandle
    \/ ExTick
    \/ ExSocketBreak

SpecTicks == TicksSpecInit /\ [][TicksNext]_vars

(***************************************************************************)
(* The start_time column of the trading table: the follow-up fetch of      *)
(* handle_http_klines_fetch, the klines committed from the websocket, and  *)
(* the MarketData arm that stacks each of them under the table.  The       *)
(* LazyFrame of the bootstrap itself is dropped by the feed, which hands   *)
(* no row of it to the table.                                              *)
(***************************************************************************)
\* the time at which fetch_benchmark_available_data has returned
FetchTimes == {30, 60, 100}

\* the start of the period of `duration` seconds that holds the timestamp
period_start(timestamp, duration) == timestamp - (timestamp % duration)

\* a set of timestamps as an ascending column
RECURSIVE Ascending(_)
Ascending(timestamps) ==
    IF timestamps = {} THEN <<>>
    ELSE LET first == CHOOSE t \in timestamps : \A u \in timestamps : t <= u
         IN <<first>> \o Ascending(timestamps \ {first})

\* map_and_downsample_ticks_data_to_df: the start_time column of the frame,
\* one row for each period of kline_duration that holds a tick or kline
downsample_start_times(ticks, duration) ==
    Ascending({period_start(ticks[i].start_time, duration) : i \in 1..Len(ticks)})

\* the row of a committed kline as it is stacked under the table
KlineRow(start_time) == TableRow(start_time, 1, 1, [signal \in SignalSet |-> 0])

\* update_strategy_data over a frame of several rows
RECURSIVE vstack_rows(_, _)
vstack_rows(trading_data, start_times) ==
    IF start_times = <<>> THEN trading_data
    ELSE vstack_rows(vstack_and_update(trading_data, KlineRow(Head(start_times))),
                     Tail(start_times))

TableInit ==
    /\ TraderInit
    /\ BenchmarkDone
    /\ PipelineIdle
    /\ TicksInit
    /\ feedPc = "history"
    /\ feedResult = "none"
    /\ run_benchmark_only = FALSE
    /\ httpFailed = FALSE
    /\ wss = "none"
    /\ last_ws_error_ts = None
    /\ connects = 0
    /\ ticks_to_commit = Subject(<<>>)
    /\ staged_ticks = <<>>

\* handle_http_klines_fetch after the bootstrap: when the last kline is not
\* yet available, the task sleeps until benchmark_end and fetches, with
\* limit 1, the one-minute kline that starts at the minute of `now`, the
\* time the bootstrap returned; then init connects the websocket
TableFetchLastKline ==
    /\ feedPc = "history"
    /\ feedPc' = "ticks"
    /\ wss' = "open"
    /\ \E now \in FetchTimes :
          LET is_last_kline_available == now > benchmark_end
              remaining_seconds_from_current_ts == now % SECONDS_IN_MIN
              start == now - remaining_seconds_from_current_ts
          IN IF is_last_kline_available
             THEN UNCHANGED <<downsampled, trading_data_update_listener,
                              barsCommitted>>
             ELSE /\ downsampled' = Some(<<[start_time |-> start]>>)
                  /\ PublishKline
    /\ UNCHANGED <<feedFrame, feedResult, run_benchmark_only, httpFailed,
                   last_ws_error_ts, connects, ticks_to_commit, staged_ticks,
                   socket, socket_read, yielded_trade,
                   granularity, benchmark_start, benchmark_end,
                   kline_duration, current_staged_kline_minute>>

\* the MarketData arm, for the table: update_strategy_data stacks the frame
\* of the update under the table as it comes
TableMarketData ==
    /\ trading_data_update_listener.fresh
    /\ trading_data_update_listener.value.kind = "MarketData"
    /\ trading_data_update_listener' = Seen(trading_data_update_listener)
    /\ LET start_times ==
              downsample_start_times(Unwrap(downsampled), kline_duration)
       IN /\ trading_data_df' = vstack_rows(trading_data_df, start_times)
          /\ last_period_tick_df' = Some(KlineRow(start_times[Len(start_times)]))
    /\ UNCHANGED <<traderFrame, feedVars, benchVars, tickVars, barsCommitted>>

TableNext ==
    \/ TableFetchLastKline
    \/ TicksListen
    \/ TicksHandle
    \/ TableMarketData
    \/ ExTick
    \/ ExSocketBreak

SpecTable == TableInit /\ [][TableNext]_vars

(***************************************************************************)
(* The closing scenarios: a trading engine over one more bar, whose bars   *)
(* carry go_long, go_short or close_long, without balance events, so that  *)
(* a signal meets a trade whose close order is in flight, or a trade that  *)
(* is closed or cancelled and still in the ledger slot.                    *)
(***************************************************************************)
CloseInit == Init /\ ~is_data_gather_only

CloseNext ==
    \/ UpdateOrderHandle
    \/ UpdateExecutionsHandle
    \/ CurrentTradeUpdateHandle
    \/ ProcessMarketData
    \/ ProcessStrategyData
    \/ ProcessEmitSignal
    \/ ProcessCleanUp
    \/ CloseDataFeedCommit
    \/ SignalHandle
    \/ SignalLoop
    \/ CancelResolve
    \/ OpenResolve
    \/ AmendResolve
    \/ CloseResolve
    \/ ExFill
    \/ ExPublishOrder
    \/ ExPublishExecution

SpecClose == CloseInit /\ [][CloseNext]_vars

\* the engine of SpecClose with the slot-clearing task in its two steps, so
\* that the other tasks may run between them; the bars signal go_long or
\* close_long and the exchange fills an order in up to MaxReconExecs executions
RaceFlagSets == {{"go_long"}, {"close_long"}}

RaceDataFeedCommit == DataFeedCommitOf(RaceFlagSets, MaxBars)

\* the account socket is one ordered stream: the exchange sends the event of
\* a change before it makes the next change
InOrder ==
    exOrders' # exOrders => \A id \in 1..Len(exOrders) : exOrders[id].pub = "none"

RaceExFill == ReconExFill /\ InOrder

RaceCancelResolve == CancelResolve /\ InOrder

RaceOpenResolve == OpenResolve /\ InOrder

RaceAmendResolve == AmendResolve /\ InOrder

RaceCloseResolve == CloseResolve /\ InOrder

RaceNext ==
    \/ UpdateOrderHandle
    \/ UpdateExecutionsHandle
    \/ ClearTake
    \/ ClearApply
    \/ ProcessMarketData
    \/ ProcessStrategyData
    \/ ProcessEmitSignal
    \/ ProcessCleanUp
    \/ RaceDataFeedCommit
    \/ SignalHandle
    \/ SignalLoop
    \/ RaceCancelResolve
    \/ RaceOpenResolve
    \/ RaceAmendResolve
    \/ RaceCloseResolve
    \/ RaceExFill
    \/ ExPublishOrder
    \/ ExPublishExecution

SpecRace == CloseInit /\ [][RaceNext]_vars

(***************************************************************************)
(* Properties.                                                             *)
(***************************************************************************)
\* a step in which the signal task enters process_last_signal
Invoked == sigPc = "idle" /\ sigPc' # "idle"

\* the trade and the signal process_last_signal is entered with
EnteredTrade == current_trade_listener.value
EnteredSignal == Unwrap(signal_listener.value)

\* an opening order of the exchange was closed by a filled closing order
ClosedOnExchange(id) ==
    \E c \in 1..Len(exOrders) :
        /\ exOrders[c].is_close
        /\ exOrders[c].closes = id
        /\ exOrders[c].status = "Filled"

\* the opening orders of the exchange that are neither cancelled nor closed
OpenersInFlight ==
    {id \in 1..Len(exOrders) :
        /\ ~exOrders[id].is_close
        /\ exOrders[id].status # "Cancelled"
        /\ ~ClosedOnExchange(id)}

\* a step in which process_last_signal sends an open_order to the Trader
OpenerDispatched ==
    /\ calls' # calls
    /\ Len(calls') >= 1
    /\ calls'[Len(calls')].op = "open_order"

\* C1: ledger singleton.  The engine never dispatches an opening order to
\* the Trader while an earlier opening order or trade is still in flight
\* (neither Closed nor Cancelled), so at most one trade is ever live.
C1_LedgerSingleton ==
    [][OpenerDispatched => OpenersInFlight' = {}]_vars

\* the executions the account socket has delivered
Pushed == exExecs \ exUnpublished

\* the executions on the orders of the current trade
LedgerExecutions ==
    IF IsSome(current_trade_listener.value)
    THEN LET trade == Unwrap(current_trade_listener.value) IN
         trade.open_order.executions \cup
         (IF IsSome(trade.close_order)
          THEN Unwrap(trade.close_order).executions ELSE {})
    ELSE {}

\* the execution is in the batch the execution handler has still to take
PendingInStream(e) ==
    /\ update_executions_listener.fresh
    /\ e \in SeqToSet(update_executions_listener.value)

InBuffer(e) == e \in SeqToSet(temp_executions)

\* C2: every execution is applied to the trade exactly once.  Executions on
\* an order are keyed by id, so none is counted twice; none that matches an
\* order of the trade is dropped: a delivered execution that names an order
\* of the current trade is on that order, or still on its way to it (in the
\* stream or in the temp_executions buffer).
C2_ExecutionAppliedOnce ==
    \A e \in Pushed :
        e.order_uuid \in LedgerUuids =>
            PendingInStream(e) \/ InBuffer(e) \/ e \in LedgerExecutions

\* C3: execution before order.  An execution delivered before the Update
\* that introduces its order X is held in temp_executions; once X is in the
\* ledger it is on X's order and out of the buffer, at the latest after the
\* next bar's CleanUp (which therefore ends).
C3_ExecutionBeforeOrder ==
    \A e \in early :
        e.order_uuid \in LedgerUuids =>
            \/ PendingInStream(e)
            \/ InBuffer(e) /\ barPc # "hung"
            \/ ~InBuffer(e) /\ e \in LedgerExecutions

\* every event of the exchange was delivered and handled
Settled ==
    /\ exUnpublished = {}
    /\ \A id \in 1..Len(exOrders) : exOrders[id].pub = "none"
    /\ ~update_order_listener.fresh
    /\ ~update_executions_listener.fresh
    /\ ~current_trade_listener.fresh
    /\ ~trading_data_update_listener.fresh
    /\ ~signal_listener.fresh
    /\ sigPc = "idle"

\* the buffer holds nothing a later CleanUp would still move to the trade,
\* or bar processing has come to its end
LedgerFinal ==
    \/ barPc = "hung"
    \/ \A e \in SeqToSet(temp_executions) : e.order_uuid \notin LedgerUuids

\* C4: execution idempotence.  For a fixed set of execution events and
\* order updates every delivery order leads to the same final ledger: the
\* one whose orders carry every execution generated for them.
C4_SameFinalLedger ==
    (Settled /\ LedgerFinal) =>
        \A e \in exExecs :
            e.order_uuid \in LedgerUuids => e \in LedgerExecutions

\* C5: the execution stream is lossless.  Every execution batch published on
\* update_executions_listener reaches temp_executions, also when two
\* batches are published back-to-back before the execution handler runs:
\* a delivered execution is still in the stream, or was appended, or is in
\* the hands of the handler.
C5_ExecutionStreamLossless ==
    \A e \in Pushed :
        PendingInStream(e) \/ e \in appended \/ "executions" \in blocked

\* the opening order requested from an idle ledger: side, quote amount
\* (available balance x allocation_percentage) and reference price (the last
\* close of the traded symbol)
EmptyLedgerRequest(side) ==
    [op |-> "open_order", side |-> side,
     amount |-> current_balance_listener.available_to_withdraw
                    * trading_settings.allocation_percentage,
     price |-> trading_data_listener.price]

\* C6: empty ledger.  On go_long (go_short) with no current trade exactly one
\* opening order is requested from the Trader, with side Buy (Sell), quote
\* amount = available balance x allocation_percentage and reference price =
\* the last close of the traded symbol; any other signal with an empty ledger
\* causes no Trader call.
C6_EmptyLedgerOpens ==
    [][/\ (Invoked /\ ~IsSome(EnteredTrade)) =>
            /\ EnteredSignal = "GoLong" =>
                  sigPc' = "open" /\ calls' = <<EmptyLedgerRequest("Buy")>>
            /\ EnteredSignal = "GoShort" =>
                  sigPc' = "open" /\ calls' = <<EmptyLedgerRequest("Sell")>>
            /\ EnteredSignal \notin {"GoLong", "GoShort"} =>
                  sigPc' = "returned" /\ calls' = <<>> /\ outcome' = "Ok"
       /\ (sigPc = "open" /\ ~IsSome(psl.trade) /\ sigPc' # "open") =>
            sigPc' = "returned" /\ calls' = calls /\ Len(calls) = 1
      ]_vars

\* C6 happens: a go_short on an empty ledger requested one Sell opener, sized
\* from an available balance that differs from the wallet balance
C6_Witness ==
    /\ sigPc = "returned"
    /\ ~IsSome(psl.trade)
    /\ psl.signal = "GoShort"
    /\ psl.balance.available_to_withdraw # psl.balance.wallet_balance
    /\ Len(calls) = 1
    /\ calls[1].op = "open_order"
    /\ calls[1].side = "Sell"
    /\ calls[1].amount =
          psl.balance.available_to_withdraw * trading_settings.allocation_percentage
    /\ calls[1].price = psl.last_price
    /\ replies = <<"Ok">>

\* a close signal of the direction of the opening order
ClosesSameDirection(signal, side) ==
    \/ signal = "CloseLong" /\ side = "Buy"
    \/ signal = "CloseShort" /\ side = "Sell"
    \/ signal = "ClosePosition" /\ side \in {"Buy", "Sell"}

\* a go_* signal of the side opposite to the opening order
OppositeGo(signal, side) ==
    \/ signal = "GoLong" /\ side = "Sell"
    \/ signal = "GoShort" /\ side = "Buy"

EnteredWith(trade_status) ==
    /\ Invoked
    /\ IsSome(EnteredTrade)
    /\ status(Unwrap(EnteredTrade)) = trade_status

\* C7: Trade.New with a close signal of the same direction.  The engine
\* calls cancel_order on the id of the opening order and makes no other
\* Trader call; a cancel that errors or returns false is surfaced as an
\* error.
C7_IdleOrderCancelled ==
    [][/\ (/\ EnteredWith("New")
           /\ ClosesSameDirection(EnteredSignal, Unwrap(EnteredTrade).open_order.side)) =>
            /\ sigPc' = "cancel"
            /\ calls' = <<[op |-> "cancel_order",
                           id |-> Unwrap(EnteredTrade).open_order.id]>>
       /\ (sigPc = "cancel" /\ sigPc' # "cancel"
           /\ ClosesSameDirection(psl.signal, Unwrap(psl.trade).open_order.side)) =>
            /\ sigPc' = "returned"
            /\ calls' = calls
            /\ Len(replies') = 1
            /\ replies'[1] \in {"false", "err"} => outcome' = "Err"
            /\ replies'[1] = "true" => outcome' = "Ok"
      ]_vars

\* C7 happens: a close_long met a Buy opener without executions, the one
\* call was cancel_order, it returned false and the result is an error
C7_Witness ==
    /\ sigPc = "returned"
    /\ IsSome(psl.trade)
    /\ status(Unwrap(psl.trade)) = "New"
    /\ Unwrap(psl.trade).open_order.side = "Buy"
    /\ psl.signal = "CloseLong"
    /\ calls = <<[op |-> "cancel_order", id |-> Unwrap(psl.trade).open_order.id]>>
    /\ replies = <<"false">>
    /\ outcome = "Err"

\* C8: Trade.New with an opposite-side go_* signal.  The engine cancels the
\* opening order and, strictly after the cancel returned true, places exactly
\* one opposite-side opening order sized by the rule of the empty ledger
\* (available balance x allocation_percentage); if the cancel errors or
\* returns false, no opening order is placed.
C8_IdleOrderRecycled ==
    [][/\ (/\ EnteredWith("New")
           /\ OppositeGo(EnteredSignal, Unwrap(EnteredTrade).open_order.side)) =>
            /\ sigPc' = "cancel"
            /\ calls' = <<[op |-> "cancel_order",
                           id |-> Unwrap(EnteredTrade).open_order.id]>>
       /\ (sigPc = "cancel" /\ sigPc' # "cancel"
           /\ OppositeGo(psl.signal, Unwrap(psl.trade).open_order.side)) =>
            IF replies'[1] = "true"
            THEN /\ sigPc' = "open"
                 /\ calls' = Append(calls,
                       [op |-> "open_order",
                        side |-> OppositeSide(Unwrap(psl.trade).open_order.side),
                        amount |-> current_balance_listener.available_to_withdraw
                                       * trading_settings.allocation_percentage,
                        price |-> psl.last_price])
            ELSE /\ sigPc' = "returned"
                 /\ calls' = calls
                 /\ outcome' = "Err"
      ]_vars

\* a close signal or a signal of the opposite side
ClosesOrOpposes(signal, side) ==
    \/ ClosesSameDirection(signal, side)
    \/ OppositeGo(signal, side)
    \/ signal \in {"RevertLong", "RevertShort", "RevertPosition"}

\* C9: Trade.PartiallyOpen with a close or opposite signal.  The engine first
\* amends the open order so that its units equal the units executed so far
\* (a non-negative quantity), and only after the amend returned true calls
\* try_close_position at the last price; if the amend errors or returns
\* false, try_close_position is not called.  A same-direction go_* signal
\* triggers neither.
C9_PartialFillFrozen ==
    [][/\ EnteredWith("PartiallyOpen") =>
            LET open == Unwrap(EnteredTrade).open_order IN
            IF ClosesOrOpposes(EnteredSignal, open.side)
            THEN /\ sigPc' = "amend"
                 /\ calls' = <<[op |-> "amend_order", id |-> open.id,
                                units |-> ExecutedQuantity(open.executions)]>>
                 /\ calls'[1].units >= 0
            ELSE sigPc' = "returned" /\ calls' = <<>>
       /\ (sigPc = "amend" /\ sigPc' # "amend") =>
            IF replies'[1] = "true"
            THEN /\ sigPc' = "close"
                 /\ Len(calls') = 2
                 /\ calls'[2].op = "try_close_position"
                 /\ calls'[2].price = psl.last_price
            ELSE sigPc' = "returned" /\ calls' = calls
      ]_vars

\* C10: Trade.Open or Trade.PartiallyClosed with a close signal matching the
\* direction of the trade, close_position or revert_position.  The engine
\* calls try_close_position exactly once at the last price.
C10_OpenTradeClosed ==
    [][(/\ Invoked
        /\ IsSome(EnteredTrade)
        /\ status(Unwrap(EnteredTrade)) \in {"Open", "PartiallyClosed"}
        /\ \/ ClosesSameDirection(EnteredSignal, Unwrap(EnteredTrade).open_order.side)
           \/ EnteredSignal = "RevertPosition") =>
            /\ sigPc' = "close"
            /\ calls' = <<[op |-> "try_close_position",
                           trade |-> Unwrap(EnteredTrade),
                           price |-> trading_data_listener.price]>>
      ]_vars

\* C11: Trade.PendingCloseOrder.  Any signal is ignored: no Trader operation
\* (open, cancel, amend or try_close) is issued while a close order is in
\* flight.
C11_PendingCloseIgnores ==
    [][EnteredWith("PendingCloseOrder") =>
            sigPc' = "returned" /\ calls' = <<>>]_vars

\* C12: Trade.Closed/Cancelled.  A go_long/go_short signal that arrives while
\* the ledger slot still holds the Closed or Cancelled trade is handled by
\* the rule of the empty ledger (an opening order is placed), it is not
\* dropped.
C12_ClosedSlotPassesSignal ==
    [][(/\ Invoked
        /\ IsSome(EnteredTrade)
        /\ status(Unwrap(EnteredTrade)) \in {"Closed", "Cancelled"}
        /\ EnteredSignal \in {"GoLong", "GoShort"}) =>
            /\ sigPc' = "open"
            /\ calls' = <<EmptyLedgerRequest(
                             IF EnteredSignal = "GoLong" THEN "Buy" ELSE "Sell")>>
      ]_vars


\* the update subject holds a stage message of a bar (StrategyData, EmitSignal
\* or CleanUp) that the bar processor has not taken yet
StagePending ==
    /\ trading_data_update_listener.fresh
    /\ trading_data_update_listener.value.kind \in
          {"StrategyData", "EmitSignal", "CleanUp"}

\* C13: per-bar stage ordering.  A stage message of a bar that is waiting in
\* the update subject is only ever taken by the bar processor's matching arm:
\* a MarketData published by the data feed meanwhile never replaces it, so no
\* stage of the earlier bar is skipped.
C13_StageNeverSkipped ==
    [][(StagePending /\ trading_data_update_listener' # trading_data_update_listener)
          => \/ ProcessStrategyData
             \/ ProcessEmitSignal
             \/ ProcessCleanUp]_vars


\* C14: balance updates are monotone in their embedded timestamp when applied:
\* the current balance never goes back to an older timestamp.
C14_BalanceMonotone ==
    [][current_balance_listener'.timestamp >= current_balance_listener.timestamp]_vars


\* the bar processor takes the StrategyData message that waits in the update
\* subject (the data feed would leave a MarketData there)
StrategyStageRuns ==
    /\ barPc = "run"
    /\ trading_data_update_listener.fresh
    /\ trading_data_update_listener.value.kind = "StrategyData"
    /\ trading_data_update_listener'.value.kind \in {"Nil", "EmitSignal"}

FeedFailure == feedPc = "sleep" \/ wss = "broken"

\* C16: after every failure of the data feed's websocket the error timestamp
\* is recorded and a new connection attempt eventually happens.
C16_FailureLeadsToReconnect ==
    FeedFailure ~> (last_ws_error_ts # None /\ feedPc = "connect")

\* C17: bootstrap failure.  Once a historical fetch over HTTP failed, the
\* feed never goes on to the live phase and init, when it returns, returns
\* an error.
C17_BootstrapFails ==
    httpFailed =>
        /\ feedPc \in {"history", "last_kline", "returned"}
        /\ feedPc = "returned" => feedResult = "Err"


\* the walk of the benchmark does one round of its loop, on bar Len(window)
BenchmarkRound == benchPc = "loop" /\ Len(window') = Len(window) + 1

\* the last element of a column
Last(column) == column[Len(column)]

StopActions == {"stop_loss", "take_profit", "leverage_bankruptcy"}

\* the round closes the held trade at the open of its bar
ClosedAtOpen ==
    /\ benchmark_trade # None
    /\ benchmark_trade' # benchmark_trade
    /\ Last(actions') \notin StopActions
    /\ LET held == Unwrap(benchmark_trade).open_order IN
       Last(profit_and_loss') =
           held.units * (Last(window').open - held.price) * SideToPosition(held.side)
             - held.fee - OrderFee(benchmark_settings, held.units, Last(window').open)

\* the signal of the previous bar that closes the held position: its close
\* signal, or the opposite go signal if signals revert their opposite
MatchingCloseSignal ==
    LET flags == Last(window)
        side == Unwrap(benchmark_trade).open_order.side
    IN \/ "close_long" \in flags.flags /\ side = "Buy"
       \/ "close_short" \in flags.flags /\ side = "Sell"
       \/ /\ benchmark_settings.sinals_revert_its_opposite
          /\ \/ "go_short" \in flags.flags /\ side = "Buy"
             \/ "go_long" \in flags.flags /\ side = "Sell"

\* C18: benchmark signal lag.  While flat after bar i-1, bar i opens an order
\* at open[i] exactly when go_short[i-1] or go_long[i-1] is set; a position
\* held after bar i-1 and not stopped at bar i is closed at open[i] exactly
\* when the matching close signal was set at i-1.
C18_SignalLag ==
    [][BenchmarkRound =>
        /\ Last(positions) = 0 =>
              ((/\ Last(actions') \in {"go_long", "go_short"}
                /\ benchmark_trade' # None
                /\ Unwrap(benchmark_trade').open_order.price = Last(window').open)
               <=> Last(window).flags \cap {"go_long", "go_short"} # {})
        /\ (Last(positions) # 0 /\ Last(actions') \notin StopActions) =>
              (ClosedAtOpen <=> MatchingCloseSignal)
      ]_vars

\* the thresholds of the held trade that bar i's low and high reach
ThresholdsReached ==
    LET held == Unwrap(benchmark_trade).open_order
        row == Last(window')
        long == held.side = "Buy"
        percent(rate) == (held.price * rate) \div 100
    IN [br |-> /\ benchmark_settings.leverage > 1
               /\ IF long
                  THEN row.low <= (held.price * (held.leverage - 1)) \div held.leverage
                  ELSE row.high >= (held.price * (held.leverage + 1)) \div held.leverage,
        sl |-> /\ benchmark_settings.stop_loss # None
               /\ IF long
                  THEN row.low <= held.price - percent(benchmark_settings.stop_loss[1])
                  ELSE row.high >= held.price + percent(benchmark_settings.stop_loss[1]),
        tp |-> /\ benchmark_settings.take_profit # None
               /\ IF long
                  THEN row.high >= held.price + percent(benchmark_settings.take_profit[1])
                  ELSE row.low <= held.price - percent(benchmark_settings.take_profit[1])]

\* C19: benchmark price-level priority.  While in position, if bar i's low or
\* high reaches a threshold (bankruptcy, stop loss, take profit), bar i closes
\* the trade with the stop action of the first threshold in the order
\* bankruptcy, stop loss, take profit, and applies no signal close or
\* reversal: the bar ends flat.
C19_PriceLevelPriority ==
    [][(BenchmarkRound /\ Last(positions) # 0) =>
        LET reached == ThresholdsReached IN
        (reached.br \/ reached.sl \/ reached.tp) =>
            /\ Last(actions') = (IF reached.br THEN "leverage_bankruptcy"
                                 ELSE IF reached.sl THEN "stop_loss"
                                 ELSE "take_profit")
            /\ Last(positions') = 0
            /\ Last(units_col') = 0
            /\ benchmark_trade' = None
      ]_vars

\* the position is held, signals revert their opposite and the previous bar
\* carries the opposite go signal
RevertSignalled ==
    /\ Last(positions) # 0
    /\ benchmark_settings.sinals_revert_its_opposite
    /\ \/ "go_short" \in Last(window).flags /\ Last(positions) = 1
       \/ "go_long" \in Last(window).flags /\ Last(positions) = -1

BenchmarkReturns == benchPc = "loop" /\ benchPc' = "done"

\* the most recent flat bar of the position column
LastFlat == CHOOSE i \in 1..Len(positions) :
                positions[i] = 0 /\ \A j \in (i + 1)..Len(positions) : positions[j] # 0

\* C21: benchmark tail rewind.  If the last bar leaves a position open, every
\* bar after the most recent flat bar has fee = units = pnl = 0, action
\* keep_position, position 0 and the flat bar's balance in the output; the
\* position column of every output ends at 0.
C21_TailRewind ==
    [][BenchmarkReturns =>
        /\ Last(positions') = 0
        /\ Last(positions) # 0 =>
              \A j \in (LastFlat + 1)..Len(positions) :
                  /\ trade_fees'[j] = 0
                  /\ units_col'[j] = 0
                  /\ profit_and_loss'[j] = 0
                  /\ actions'[j] = "keep_position"
                  /\ positions'[j] = 0
                  /\ balances'[j] = balances[LastFlat]
      ]_vars

\* the walk ended in a position opened after an earlier trade was closed, and
\* the output ends flat with the earlier trade still in it
C21_Witness ==
    /\ benchPc = "done"
    /\ benchmark_trade # None
    /\ Len(positions) >= 3
    /\ positions[Len(positions)] = 0
    /\ \E j \in 1..Len(positions) : positions[j] # 0
    /\ actions[Len(actions)] = "keep_position"
    /\ balances[Len(balances)] < benchmark_settings.benchmark_balance

SignalCloseActions ==
    {"close_long", "close_short", "revert_position", "close_position"}

\* C29: benchmark signal close is guarded.  A held position (not stopped at
\* bar i) is closed by signal at bar i iff close_short[i-1] while short, or
\* close_long[i-1] while long, or signals_revert_opposite and the opposite go
\* signal at i-1; with signals_revert_opposite false an opposite go signal
\* neither closes nor reverses the position.
C29_SignalCloseGuarded ==
    [][(BenchmarkRound /\ Last(positions) # 0 /\ Last(actions') \notin StopActions) =>
        LET flags == Last(window).flags
            long == Last(positions) = 1
            guard == \/ "close_short" \in flags /\ ~long
                     \/ "close_long" \in flags /\ long
                     \/ /\ benchmark_settings.sinals_revert_its_opposite
                        /\ (IF long THEN "go_short" ELSE "go_long") \in flags
        IN /\ Last(actions') \in SignalCloseActions <=> guard
           /\ ~guard => /\ Last(positions') = Last(positions)
                        /\ benchmark_trade' = benchmark_trade
      ]_vars

\* C30: the tail rewind preserves completed trades.  The rewind changes only
\* rows strictly after the most recent flat bar, and every row that closed a
\* trade (by signal, by stop or by reversal) keeps its fee, pnl and action.
C30_RewindKeepsCompletedTrades ==
    [][BenchmarkReturns =>
        /\ \A i \in 1..LastFlat :
              /\ trade_fees'[i] = trade_fees[i]
              /\ units_col'[i] = units_col[i]
              /\ profit_and_loss'[i] = profit_and_loss[i]
              /\ balances'[i] = balances[i]
              /\ positions'[i] = positions[i]
              /\ actions'[i] = actions[i]
        /\ \A i \in 1..Len(actions) :
              actions[i] \in SignalCloseActions \cup StopActions =>
                  /\ trade_fees'[i] = trade_fees[i]
                  /\ profit_and_loss'[i] = profit_and_loss[i]
                  /\ actions'[i] = actions[i]
      ]_vars


RECURSIVE SumColumn(_)
SumColumn(column) ==
    IF column = <<>> THEN 0 ELSE column[1] + SumColumn(Tail(column))

\* C22: benchmark balance conservation.  For every window whose walk ends
\* flat, the final balance minus the initial benchmark balance equals the sum
\* of the pnl column minus the sum of the trade_fees column.
C22_BalanceConservation ==
    (Last(positions) = 0 /\ benchmark_trade = None) =>
        Last(balances) - balances[1]
            = SumColumn(profit_and_loss) - SumColumn(trade_fees)


\* the table without what the signal stage wrote: the input of the fit path
Undecorated(data) ==
    [i \in 1..Len(data) |-> [data[i] EXCEPT !.signals = [c \in SignalSet |-> 0]]]

\* C23: pipeline consistency.  After update_strategy_data on T with r
\* appended, the signal columns of the last row hold exactly the values the
\* fit path (set_signal_column joined on start_time) gives that row on the
\* same table.
C23_UpdateEqualsFit ==
    last_period_tick_df # None =>
        LET fitted == set_signals_data(Undecorated(trading_data_df))
        IN Last(trading_data_df).signals = Last(fitted).signals

\* an update turned the incoming row's go_short column from 0 to 1 and its
\* go_long column from 1 to 0
C23_Witness ==
    /\ last_period_tick_df # None
    /\ Len(trading_data_df) >= 3
    /\ Unwrap(last_period_tick_df).signals["GoShort"] = 0
    /\ Unwrap(last_period_tick_df).signals["GoLong"] = 1
    /\ Last(trading_data_df).signals["GoShort"] = 1
    /\ Last(trading_data_df).signals["GoLong"] = 0


\* C26: after the data-feed websocket connects, the tick listener and the
\* committed-ticks handler both make progress: every tick the socket
\* delivers is eventually read and staged (unless the connection is lost
\* first).
C26_TicksMakeProgress ==
    (wss = "open" /\ socket_read < Len(socket))
        ~> (socket_read = Len(socket) \/ wss # "open")


\* listen_ticks reads the next tick of the socket
TickRead == feedPc = "ticks" /\ socket_read' = socket_read + 1

\* C27: bar partition.  A tick is appended to the staging map iff its
\* timestamp lies inside the staged granularity-aligned bar; a tick of any
\* other bar commits all staged ticks, after which staging holds exactly the
\* triggering tick.
C27_BarPartition ==
    [][(TickRead /\ staged_ticks # <<>>) =>
        LET tick == socket[socket_read + 1]
            bar(t) == t.start_time \div kline_duration
        IN IF bar(tick) = bar(staged_ticks[1])
           THEN /\ staged_ticks' = Append(staged_ticks, tick)
                /\ ticks_to_commit' = ticks_to_commit
           ELSE /\ ticks_to_commit'.fresh
                /\ ticks_to_commit'.value = staged_ticks
                /\ staged_ticks' = <<tick>>
      ]_vars

\* C28: no tick with a timestamp before benchmark_end contributes to an
\* emitted live bar: the batch a published kline was downsampled from holds
\* no such tick.
C28_OldTicksDiscarded ==
    downsampled # None =>
        \A i \in 1..Len(Unwrap(downsampled)) :
            Unwrap(downsampled)[i].start_time >= benchmark_end


\* C25: execution ownership.  In every reachable ledger state each execution
\* held by the current trade names the trade's open order or its close
\* order; an execution with another or an empty order_uuid is never attached.
C25_ExecutionOwnership ==
    IsSome(current_trade_listener.value) =>
        LET trade == Unwrap(current_trade_listener.value)
            held == trade.open_order.executions \cup
                    (IF IsSome(trade.close_order)
                     THEN Unwrap(trade.close_order).executions ELSE {})
            owners == {trade.open_order.uuid} \cup
                      (IF IsSome(trade.close_order)
                       THEN {Unwrap(trade.close_order).uuid} ELSE {})
        IN \A e \in held : e.order_uuid # 0 /\ e.order_uuid \in owners


\* the trade holds executions while the buffer holds an execution of an
\* order that is not the trade's
C25_Witness ==
    /\ IsSome(current_trade_listener.value)
    /\ LedgerExecutions # {}
    /\ \E e \in SeqToSet(temp_executions) : e.order_uuid \notin LedgerUuids

\* C24: table density.  After the bootstrap and any sequence of live bar
\* commits (the follow-up fetch and the websocket commits) the start_time
\* column of the trading table is strictly increasing by exactly one
\* granularity, and every start_time is a multiple of the granularity.
C24_TableDensity ==
    /\ \A i \in 1..Len(trading_data_df) :
          trading_data_df[i].start_time % kline_duration = 0
    /\ \A i \in 2..Len(trading_data_df) :
          trading_data_df[i].start_time =
              trading_data_df[i - 1].start_time + kline_duration

\* the order handler takes an event of the given actions from its stream
OrderEventHandled(order_actions) ==
    /\ update_order_listener.fresh
    /\ ~update_order_listener'.fresh
    /\ IsSome(update_order_listener.value)
    /\ Unwrap(update_order_listener.value).action \in order_actions

\* C31: cancel handling.  A Cancel whose order id is the id of the current
\* trade's open order marks that order cancelled and makes the trade
\* Cancelled, the rest of the trade as it was; a Cancel for another order id,
\* or with an empty ledger, leaves the ledger as it is.
C31_CancelHandling ==
    [][OrderEventHandled({"Cancel"}) =>
          LET cancelled_order == Unwrap(update_order_listener.value).order
              slot == current_trade_listener.value
              after == current_trade_listener'.value
          IN IF IsSome(slot) /\ cancelled_order.id = Unwrap(slot).open_order.id
             THEN /\ IsSome(after)
                  /\ Unwrap(after).open_order =
                        [Unwrap(slot).open_order EXCEPT !.status = "Cancelled"]
                  /\ Unwrap(after).close_order = Unwrap(slot).close_order
                  /\ status(Unwrap(after)) = "Cancelled"
             ELSE current_trade_listener' = current_trade_listener
      ]_vars

C31_Witness ==
    /\ IsSome(current_trade_listener.value)
    /\ current_trade_listener.fresh
    /\ status(Unwrap(current_trade_listener.value)) = "Cancelled"
    /\ update_order_listener = Taken(update_order_listener, None)

\* the buffered executions that name the order
BufferedFor(order) ==
    {temp_executions[i] : i \in {j \in 1..Len(temp_executions) :
                                    temp_executions[j].order_uuid = order.uuid}}

\* the order is the open order or the close order of the trade, or a close
\* or stop order for a trade that has none
BelongsTo(order, trade) ==
    \/ order.uuid = trade.open_order.uuid
    \/ IsSome(trade.close_order) /\ order.uuid = Unwrap(trade.close_order).uuid
    \/ ~IsSome(trade.close_order) /\ (order.is_close \/ order.is_stop)

\* C40: order update with an empty ledger.  An Update or Stop carrying an
\* order that is neither a stop nor a close order puts into the slot the
\* trade made of that order and of its buffered executions, which leave the
\* buffer; an Update or Stop carrying a stop or close order leaves the ledger
\* empty; an Update or Stop whose order does not belong to the current trade
\* leaves the current trade as it is.
C40_UpdateOnEmptyLedger ==
    [][OrderEventHandled({"Update", "Stop"}) =>
          LET order == Unwrap(update_order_listener.value).order
              slot == current_trade_listener.value
              after == current_trade_listener'.value
          IN IF ~IsSome(slot)
             THEN IF order.is_stop \/ order.is_close
                  THEN current_trade_listener' = current_trade_listener
                  ELSE /\ after =
                             <<[open_order |->
                                   [order EXCEPT !.executions = BufferedFor(order)],
                                close_order |-> <<>>]>>
                       /\ \A i \in 1..Len(temp_executions') :
                             temp_executions'[i].order_uuid # order.uuid
             ELSE ~BelongsTo(order, Unwrap(slot)) =>
                     current_trade_listener' = current_trade_listener
      ]_vars

C40_Witness ==
    /\ IsSome(current_trade_listener.value)
    /\ current_trade_listener.fresh
    /\ update_order_listener = Taken(update_order_listener, None)
    /\ Unwrap(current_trade_listener.value).open_order.executions # {}
    /\ Unwrap(current_trade_listener.value).open_order.status = "New"
    /\ ~IsSome(Unwrap(current_trade_listener.value).close_order)
    /\ temp_executions = <<>>
    /\ appended # {}

\* the slot holds a trade closed by a stop order
StoppedClosed ==
    /\ IsSome(current_trade_listener.value)
    /\ IsSome(Unwrap(current_trade_listener.value).close_order)
    /\ Unwrap(Unwrap(current_trade_listener.value).close_order).status
          \in {"StoppedSL", "StoppedTP", "StoppedBR"}
    /\ status(Unwrap(current_trade_listener.value)) = "Closed"

C36_CleanUpTerminates ==
    /\ barPc # "hung"
    /\ blocked = {}

\* the EmitSignal stage takes the decorated row and publishes a signal
SignalEmitted ==
    /\ trading_data_update_listener.value.kind = "EmitSignal"
    /\ trading_data_update_listener'.value.kind = "CleanUp"

\* C39: generate_last_position_signal emits go_short or go_long only when
\* the trailing position is 0 (go_short first when both flags are set),
\* close_position, close_short or close_long only when the trailing position
\* is not 0 (close_short only at -1, close_long only at 1, close_position
\* first), and keep_position in every other case.
C39_LastPositionSignal ==
    [][SignalEmitted =>
          LET flags == trading_data_update_listener.value.data.flags
              position == trading_data_update_listener.value.data.position[1]
              signal == signal_listener'.value[1]
              opens == position = 0 /\ flags \cap {"go_short", "go_long"} # {}
              closes == /\ position # 0
                        /\ \/ "close_position" \in flags
                           \/ position = -1 /\ "close_short" \in flags
                           \/ position = 1 /\ "close_long" \in flags
          IN /\ signal = "GoShort" <=> (opens /\ "go_short" \in flags)
             /\ signal = "GoLong" <=> (opens /\ "go_short" \notin flags)
             /\ signal = "ClosePosition" <=> (closes /\ "close_position" \in flags)
             /\ signal = "CloseShort" <=>
                   (closes /\ "close_position" \notin flags /\ position = -1)
             /\ signal = "CloseLong" <=>
                   (closes /\ "close_position" \notin flags /\ position = 1)
             /\ signal = "KeepPosition" <=> (~opens /\ ~closes)
      ]_vars

C39_Witness ==
    /\ trading_data_update_listener.value.kind = "CleanUp"
    /\ {"go_short", "go_long", "close_short"}
          \subseteq trading_data_update_listener.value.data.flags
    /\ trading_data_update_listener.value.data.position = <<-1>>
    /\ signal_listener.value = <<"CloseShort">>

\* the decorator ran: the table changed and kept its height
TableDecorated ==
    /\ Len(trading_data_df') = Len(trading_data_df)
    /\ trading_data_df' # trading_data_df

\* C33: update_trading_data changes only the trailing row of the decorated
\* table; with an empty ledger the trailing row gets fee = units = pnl =
\* returns = 0 and position 0, with a live trade (neither Closed nor
\* Cancelled) the trailing position is the side of the open order, and the
\* balance is the available balance of the moment.
C33_DecoratorFrame ==
    [][TableDecorated =>
          LET height == Len(trading_data_df)
              trailing == trading_data_df'[height]
              ledger == current_trade_listener.value
              opener == ledger[1].open_order
              closed_or_cancelled ==
                  \/ opener.status = "Cancelled"
                  \/ /\ ledger[1].close_order # <<>>
                     /\ ledger[1].close_order[1].status
                           \in {"Filled", "Closed"} \cup StopStatuses
          IN /\ \A i \in 1..(height - 1) : trading_data_df'[i] = trading_data_df[i]
             /\ trailing.start_time = trading_data_df[height].start_time
             /\ trailing.balance = <<current_balance_listener.available_to_withdraw>>
             /\ ledger = <<>> =>
                   /\ trailing.trade_fees = <<0>>
                   /\ trailing.units = <<0>>
                   /\ trailing.profit_and_loss = <<0>>
                   /\ trailing.returns = <<0>>
                   /\ trailing.position = <<0>>
             /\ (ledger # <<>> /\ ~closed_or_cancelled) =>
                   trailing.position =
                       <<IF opener.side = "Buy" THEN 1 ELSE -1>>
      ]_vars

C33_Witness ==
    /\ Len(trading_data_df) = 4
    /\ trading_data_df[3].position = <<-1>>
    /\ trading_data_df[3].balance = <<MaxBalance + MaxBalanceEvents - 1>>
    /\ trading_data_df[4].position = <<0>>
    /\ trading_data_df[4].units = <<0>>
    /\ current_trade_listener.value = <<>>

\* C34: adjust_benchmark_datetimes either returns an error or returns
\* (start, end) with start <= end - minimum_klines x granularity -
\* minimum_days, whether benchmark_start was supplied or defaulted.
C34_AdjustedWindow ==
    [][(feedPc = "init" /\ feedPc' = "history") =>
          benchmark_start' <= benchmark_end' - MinimumKlines * kline_duration
                                  - MinimumDaysForAnalysis * SECONDS_IN_DAY
      ]_vars

\* the nominal period of a granularity, in seconds
NominalSeconds ==
    [m1 |-> 60, m3 |-> 180, m5 |-> 300, m10 |-> 600, m15 |-> 900, m30 |-> 1800,
     h1 |-> 3600, h2 |-> 7200, h4 |-> 14400, h6 |-> 21600, h12 |-> 43200,
     d1 |-> 86400, w1 |-> 604800]

\* C35: get_granularity_in_secs maps every granularity to its nominal period
\* in seconds, strictly increasing along the enumeration order, and
\* get_granularity_in_mins x 60 equals it.
C35_GranularityPeriods ==
    feedPc \notin {"new"} =>
        /\ granularity \in DOMAIN NominalSeconds =>
              kline_duration = NominalSeconds[granularity]
        /\ \A k \in 1..Len(Granularities) :
              (k > 1 /\ Granularities[k] = granularity) =>
                  get_granularity_in_secs(Granularities[k - 1]) < kline_duration
        /\ get_granularity_in_mins(granularity) * 60 = kline_duration

\* the slot-clearing task sends None to the slot
SlotCleared == yielded_trade # <<>> /\ yielded_trade' = <<>>

\* another task puts a trade into the empty slot
SlotFilled ==
    /\ current_trade_listener.value = <<>>
    /\ current_trade_listener'.value # <<>>

====
